---------------------------- MODULE Spec2Model ----------------------------
(***************************************************************************)
(* A model of harmonize.py: the pitch algebra (Note, Interval, Chord) and  *)
(* the backward harmonization search (apply_progression,                   *)
(* get_harmonizations, fill_harmonizations, harmonize).                    *)
(*                                                                         *)
(* A Note is a record [cls, name, accidental, octave, isotonic_is_equal];  *)
(* cls tells a plain Note from an Interval (isinstance(x, Interval)).      *)
(* A Chord is a record [notes, key]; key is <<>> for None and <<k>> for a  *)
(* key k.  Python sequences are 0-based, the sequences here 1-based.       *)
(***************************************************************************)
EXTENDS Integers, Sequences, FiniteSets

VARIABLES
    \* harmonize(melody, final_chord)
    melody,          \* the melody argument, a sequence of Notes
    final_chord,     \* the final_chord argument: <<>> for None, else <<chord>>
    harmonizations,  \* the local list of partial harmonizations
    i,               \* number of completed iterations of the loop of harmonize
    pc,              \* position in harmonize: "start", "loop", "done"
    \* Note._steps_to_scale_num / Note._scale_num_to_steps
    in_steps,        \* the steps argument
    in_flat,         \* the flat argument
    out_tuple,       \* <<>>, or <<(scale_num, accidental, octave)>> once converted
    out_steps,       \* <<>>, or <<steps>> once converted back
    \* Note.__sub__
    lhs,             \* left operand
    rhs,             \* right operand
    diff,            \* <<>>, or <<lhs - rhs>>
    rdiff,           \* <<>>, or <<rhs - lhs>>
    sum,             \* <<>>, or <<lhs + rhs>>
    rsum,            \* <<>>, or <<rhs + lhs>>
    \* Chord(short, notes, key), its quality property and Chord.__add__
    c_short,         \* the short argument: <<>> for None, else <<short name>>
    c_notes,         \* the notes argument: <<>> for None, else <<notes>>
    c_key,           \* the key argument: <<>> for None, else <<key>>
    c_chord,         \* <<>>, or <<[raised, obj]>> once the constructor ran
    c_quality,       \* <<>>, or <<chord.quality>> once it was read
    c_added,         \* number of transpositions the chord came through
    \* one FrozenClass instance and the calls made on it
    f_cls,           \* its class: "Note", "Interval" or "Chord"
    f_dict,          \* its __dict__: attribute name -> <<>> (absent) or <<value>>
    f_live,          \* TRUE once its constructor has returned it
    f_call,          \* the last call on it: [op, key, raised]
    \* comparisons and hashes of three Notes
    k_a, k_b, k_c,   \* the three Notes
    k_cmp,           \* <<>>, or <<the results of ==, < and > on each pair>>
    k_hash,          \* <<>>, or <<(hash(k_a), hash(k_b))>>
    \* one call of a constructor
    new_cls,         \* the class called: "Note" or "Interval"
    new_args,        \* the keyword arguments, <<>> for one left at None
    new_result,      \* <<>>, or <<[raised, obj]>> once the call is over
    \* one call of apply_progression
    p_progression,   \* the progression argument: (predecessor, successor)
    p_chord,         \* the chord argument
    p_applied,       \* <<>>, or <<the tuple returned>>, (None, None) being <<>>
    \* Note._scale_num_to_steps of neighbouring scale degrees
    s_num,           \* the scale_num argument
    s_steps          \* <<>>, or <<the steps of s_num, s_num + 1 and s_num + 7>>

harm_vars  == <<melody, final_chord, harmonizations, i, pc>>
conv_vars  == <<in_steps, in_flat, out_tuple, out_steps>>
arith_vars == <<lhs, rhs, diff, rdiff, sum, rsum>>
chord_vars == <<c_short, c_notes, c_key, c_chord, c_quality, c_added>>
frozen_vars == <<f_cls, f_dict, f_live, f_call>>
cmp_vars   == <<k_a, k_b, k_c, k_cmp, k_hash>>
new_vars   == <<new_cls, new_args, new_result>>
apply_vars == <<p_progression, p_chord, p_applied>>
scale_vars == <<s_num, s_steps>>
vars       == <<harm_vars, conv_vars, arith_vars, chord_vars, frozen_vars,
                cmp_vars, new_vars, apply_vars, scale_vars>>

\* the variables an operation of one part of the program leaves alone
outside_harm   == <<conv_vars, arith_vars, chord_vars, frozen_vars,
                    cmp_vars, new_vars, apply_vars, scale_vars>>
outside_conv   == <<harm_vars, arith_vars, chord_vars, frozen_vars,
                    cmp_vars, new_vars, apply_vars, scale_vars>>
outside_arith  == <<harm_vars, conv_vars, chord_vars, frozen_vars,
                    cmp_vars, new_vars, apply_vars, scale_vars>>
outside_chord  == <<harm_vars, conv_vars, arith_vars, frozen_vars,
                    cmp_vars, new_vars, apply_vars, scale_vars>>
outside_frozen == <<harm_vars, conv_vars, arith_vars, chord_vars,
                    cmp_vars, new_vars, apply_vars, scale_vars>>
outside_cmp    == <<harm_vars, conv_vars, arith_vars, chord_vars,
                    frozen_vars, new_vars, apply_vars, scale_vars>>
outside_new    == <<harm_vars, conv_vars, arith_vars, chord_vars,
                    frozen_vars, cmp_vars, apply_vars, scale_vars>>
outside_apply  == <<harm_vars, conv_vars, arith_vars, chord_vars,
                    frozen_vars, cmp_vars, new_vars, scale_vars>>
outside_scale  == <<harm_vars, conv_vars, arith_vars, chord_vars,
                    frozen_vars, cmp_vars, new_vars, apply_vars>>

---------------------------------------------------------------------------
(* Bounds of the model *)

\* melodies have 1..MaxMelodyLen notes
MaxMelodyLen == 3
\* steps arguments range over -MaxSteps..MaxSteps
MaxSteps == 36
\* scale_num arguments range over -MaxScaleNum..MaxScaleNum
MaxScaleNum == 60
\* operands of Note arithmetic have accidentals -MaxAccidental..MaxAccidental
MaxAccidental == 1
\* operands of Note arithmetic have octaves -MaxOctave..MaxOctave
MaxOctave == 1
\* chords are built from 0..MaxChordNotes notes given in any order
MaxChordNotes == 3
\* a chord is transposed at most MaxAdds times
MaxAdds == 1

---------------------------------------------------------------------------
(* Python helpers *)

abs(n) == IF n < 0 THEN -n ELSE n

\* cmp(a, b) of two integers
cmp(a, b) == IF a < b THEN -1 ELSE IF a > b THEN 1 ELSE 0

\* tuple.index / list.index, 0-based as in Python
index(seq, v) == (CHOOSE k \in 1..Len(seq) : seq[k] = v) - 1

---------------------------------------------------------------------------
(* class FrozenClass and class cached_attribute.  An instance is its       *)
(* __dict__; attribute values are written as strings, "True" and "False"   *)
(* for the booleans.                                                       *)

\* the name self.__is_frozen is mangled to inside FrozenClass
IS_FROZEN == "_FrozenClass__is_frozen"

\* the attributes the constructors assign, in the order they assign them
InstanceAttributes(cls) ==
    IF cls = "Chord" THEN <<"notes", "key">>
    ELSE <<"octave", "name", "accidental">>

\* the cached_attribute properties of a class
CachedAttributes(cls) ==
    IF cls = "Chord"
    THEN {"root", "intervals", "quality", "is_seventh_chord", "real_notes"}
    ELSE {}

FrozenKeys ==
    {IS_FROZEN, "notes", "key", "octave", "name", "accidental",
     "isotonic_is_equal", "root", "intervals", "quality", "is_seventh_chord",
     "real_notes", "other"}

empty_dict == [k \in FrozenKeys |-> <<>>]

\* self.__is_frozen: the instance's own value, else the class attribute False
is_frozen(d) == IF d[IS_FROZEN] # <<>> THEN d[IS_FROZEN][1] ELSE "False"

\* the truth value of an attribute value
truthy(v) == v # "False"

\* FrozenClass.__setattr__(self, key, value): returns [raised, dict]
FrozenClass__setattr__(d, key, value) ==
    IF truthy(is_frozen(d)) THEN [raised |-> "TypeError", dict |-> d]
    ELSE [raised |-> "", dict |-> [d EXCEPT ![key] = <<value>>]]

\* FrozenClass.__delattr__(self, k): returns [raised, dict]
FrozenClass__delattr__(d, k) ==
    IF truthy(is_frozen(d)) THEN [raised |-> "TypeError", dict |-> d]
    ELSE IF d[k] = <<>> THEN [raised |-> "KeyError", dict |-> d]
    ELSE [raised |-> "", dict |-> [d EXCEPT ![k] = <<>>]]

\* FrozenClass._freeze(self): self.__is_frozen = True
_freeze(d) == FrozenClass__setattr__(d, IS_FROZEN, "True").dict

_unfrozen_exit_open(d, old_frozen) == d

\* FrozenClass._unfrozen: on entry, self.__dict__[...] = False
_unfrozen_enter(d) == [d EXCEPT ![IS_FROZEN] = <<"False">>]

\* FrozenClass._unfrozen: the finally clause, self.__dict__[...] = old_frozen
_unfrozen_exit(d, old_frozen) == [d EXCEPT ![IS_FROZEN] = <<old_frozen>>]

\* cached_attribute.__get__(inst) for the property called name: the value
\* is computed, then stored with setattr inside inst._unfrozen()
cached_attribute__get__(d, name) ==
    LET old_frozen == is_frozen(d)
    IN  _unfrozen_exit(
            FrozenClass__setattr__(_unfrozen_enter(d), name, "computed").dict,
            old_frozen)

\* inst.name for a cached_attribute: the descriptor has no __set__, so a
\* value already in the instance's __dict__ is returned as it is.  Computing
\* is_seventh_chord reads self.quality first.
read_cached(d, name) ==
    IF d[name] # <<>> THEN d
    ELSE IF name = "is_seventh_chord"
    THEN cached_attribute__get__(
             IF d["quality"] # <<>> THEN d
             ELSE cached_attribute__get__(d, "quality"),
             name)
    ELSE cached_attribute__get__(d, name)

\* the assignments of a constructor, one setattr after the other
RECURSIVE assign_all(_, _)
assign_all(d, keys) ==
    IF keys = <<>> THEN d
    ELSE assign_all(FrozenClass__setattr__(d, Head(keys), "given").dict,
                    Tail(keys))

\* Note.__init__, Interval.__init__ and Chord.__init__ as seen by
\* FrozenClass: the attributes are assigned, isotonic_is_equal too when the
\* isotonic argument is given, and the instance is frozen
construct(cls, isotonic_given) ==
    _freeze(assign_all(empty_dict,
                InstanceAttributes(cls) \o
                    (IF cls # "Chord" /\ isotonic_given
                     THEN <<"isotonic_is_equal">> ELSE <<>>)))

---------------------------------------------------------------------------
(* class Note: class attributes *)

_NOTE_ORDER == <<"C", "D", "E", "F", "G", "A", "B">>
_STEPS_PER_OCTAVE == 12
_NOTES_PER_OCTAVE == Len(_NOTE_ORDER)

(* class Note: class methods *)

\* int(floor(steps / 12)) is floor division; steps % 12 is in 0..11
_steps_to_scale_num(steps, flat) ==
    LET octave     == steps \div _STEPS_PER_OCTAVE
        adj0       == steps % _STEPS_PER_OCTAVE
        adj_steps  == IF adj0 >= 5 THEN adj0 + 1 ELSE adj0
        scale_num  == adj_steps \div 2
    IN  IF adj_steps % 2 = 0 THEN <<scale_num, 0, octave>>
        ELSE IF flat THEN <<scale_num + 1, -1, octave>>
        ELSE <<scale_num, 1, octave>>

_scale_num_to_steps_flat_gap(scale_num, accidental, octave) ==
    LET oct   == octave + (scale_num \div _NOTES_PER_OCTAVE)
        steps == (scale_num % _NOTES_PER_OCTAVE) * 2
        adj   == IF (scale_num % _NOTES_PER_OCTAVE) >= 5 THEN steps - 1 ELSE steps
    IN  adj + oct * _STEPS_PER_OCTAVE + accidental

\* the quotient rounded towards zero and the remainder that goes with it
_scale_num_to_steps_truncating(scale_num, accidental, octave) ==
    LET quot  == IF scale_num >= 0 THEN scale_num \div _NOTES_PER_OCTAVE
                 ELSE -((-scale_num) \div _NOTES_PER_OCTAVE)
        rem   == scale_num - quot * _NOTES_PER_OCTAVE
        adj   == IF rem > 2 THEN rem * 2 - 1 ELSE rem * 2
    IN  adj + (octave + quot) * _STEPS_PER_OCTAVE + accidental

_scale_num_to_steps(scale_num, accidental, octave) ==
    LET oct   == octave + (scale_num \div _NOTES_PER_OCTAVE)
        steps == (scale_num % _NOTES_PER_OCTAVE) * 2
        adj   == IF (scale_num % _NOTES_PER_OCTAVE) > 2 THEN steps - 1 ELSE steps
    IN  adj + oct * _STEPS_PER_OCTAVE + accidental

\* returns (name, octave)
_scale_num_to_name(scale_num) ==
    <<_NOTE_ORDER[(scale_num % _NOTES_PER_OCTAVE) + 1],
      scale_num \div _NOTES_PER_OCTAVE>>

_scale_name_to_num(scale_name, octave) ==
    index(_NOTE_ORDER, scale_name) + octave * _NOTES_PER_OCTAVE

_name_to_steps(name, accidental, octave) ==
    _scale_num_to_steps(_scale_name_to_num(name, 0), 0, 0)
        + accidental + octave * _STEPS_PER_OCTAVE

(* class Note: constructors.  isotonic_is_equal is the class attribute True *)
(* unless the isotonic argument sets it on the instance.                    *)

\* Note(name=name, accidental=accidental, octave=octave, isotonic=isotonic)
Note_from_name(name, accidental, octave, isotonic) ==
    [cls |-> "Note", name |-> name, accidental |-> accidental,
     octave |-> octave, isotonic_is_equal |-> isotonic]

\* Note(scale_num=scale_num, accidental=accidental)
Note_from_scale_num(scale_num, accidental) ==
    LET this == _scale_num_to_name(scale_num)
    IN  [cls |-> "Note", name |-> this[1], accidental |-> accidental,
         octave |-> 0 + this[2], isotonic_is_equal |-> TRUE]

\* Note(short) for short a Note: copies name, accidental and octave
Note_from_note(short) ==
    [cls |-> "Note", name |-> short.name, accidental |-> short.accidental,
     octave |-> short.octave, isotonic_is_equal |-> TRUE]

(* class Note: properties *)

Note_scale_num(self) == _scale_name_to_num(self.name, self.octave)

Note_steps(self) == _name_to_steps(self.name, self.accidental, self.octave)

(* class Interval(Note) *)

\* Interval(distance=distance, accidental=accidental)
Interval_from_distance(distance, accidental) ==
    LET this == _scale_num_to_name(distance)
    IN  [cls |-> "Interval", name |-> this[1], accidental |-> accidental,
         octave |-> this[2], isotonic_is_equal |-> TRUE]

Interval_distance(self) == abs(Note_scale_num(self))

(* The constructors in full.  An optional argument is <<>> for None and    *)
(* <<v>> for the value v.  A call returns [raised, obj]: raised is "" and  *)
(* obj is <<the object>>, or raised names the exception and obj is <<>>.   *)

Raise(exception) == [raised |-> exception, obj |-> <<>>]

Return_(object) == [raised |-> "", obj |-> <<object>>]

steps_ignored(steps, self) == FALSE

\* "steps is not None and steps != self.steps" of Note.__init__
steps_mismatch(steps, self) == steps # <<>> /\ steps[1] # Note_steps(self)

\* Note.__init__; cls is the class being constructed.  short is a Note or
\* the (name, accidental, octave) that Note._parse_short_name reads from a
\* string: both are read through .name, .accidental and .octave
Note__init__(cls, short, name, accidental, octave, scale_num, steps, flat, sharp, isotonic) ==
    IF short # <<>> /\ (name # <<>> \/ scale_num # <<>> \/ steps # <<>>)
    THEN Raise("ValueError")
    ELSE
    LET name1 == IF short # <<>> THEN <<short[1].name>> ELSE name
        acc1  == IF short # <<>> THEN <<short[1].accidental>> ELSE accidental
        oct1  == IF short # <<>> THEN <<short[1].octave>> ELSE octave
        iso   == IF isotonic # <<>> THEN isotonic[1] ELSE TRUE
    IN  IF name1 # <<>> \/ scale_num # <<>>
        THEN LET oct2 == IF oct1 = <<>> THEN 0 ELSE oct1[1]
                 this == IF scale_num # <<>> THEN _scale_num_to_name(scale_num[1])
                         ELSE <<"", 0>>
             IN  IF scale_num # <<>> /\ name1 # <<>> /\ name1[1] # this[1]
                 THEN Raise("ValueError")
                 ELSE LET self == [cls |-> cls,
                                   name |-> IF scale_num # <<>> THEN this[1]
                                            ELSE name1[1],
                                   accidental |-> IF acc1 # <<>> THEN acc1[1]
                                                  ELSE IF flat THEN -1
                                                  ELSE IF sharp THEN 1
                                                  ELSE 0,
                                   octave |-> oct2 + this[2],
                                   isotonic_is_equal |-> iso]
                      IN  IF steps_mismatch(steps, self)
                          THEN Raise("ValueError")
                          ELSE Return_(self)
        ELSE IF steps = <<>> THEN Raise("ValueError")
        ELSE IF acc1 # <<>> \/ oct1 # <<>> THEN Raise("ValueError")
        ELSE LET t == _steps_to_scale_num(steps[1], FALSE)
             IN  Return_([cls |-> cls,
                          name |-> _scale_num_to_name(t[1])[1],
                          accidental |-> t[2],
                          octave |-> t[3],
                          isotonic_is_equal |-> iso])

(* class Interval(Note): class attributes and class methods *)

_INTERVAL_NAMES ==
    <<"UNISON", "SECOND", "THIRD", "FOURTH", "FIFTH", "SIXTH", "SEVENTH",
      "OCTAVE", "NINTH", "TENTH", "ELEVENTH", "TWELFTH", "THIRTEENTH",
      "FOURTEENTH", "FIFTEENTH">>

_PERFECT_INTERVAL_TYPES == <<"DIMINISHED", "PERFECT", "AUGMENTED">>

_INTERVAL_TYPES == <<"DIMINISHED", "MINOR", "MAJOR", "AUGMENTED">>

_ALL_TYPES   == <<"DIMINISHED", "MINOR", "MAJOR", "PERFECT", "AUGMENTED">>
_TYPE_ABBREV == <<"d", "m", "M", "P", "A">>

\* v in seq
contains(seq, v) == \E k \in 1..Len(seq) : seq[k] = v

\* <<distance>>, or <<>> when the name is unknown (ValueError); the names
\* are given in upper case
_interval_name_to_distance(interval_name) ==
    IF contains(_INTERVAL_NAMES, interval_name)
    THEN <<index(_INTERVAL_NAMES, interval_name)>>
    ELSE <<>>

\* <<accidental>>, or <<>> when tuple.index raises ValueError; the types
\* are given in upper case
_interval_type_to_accidental(distance, interval_type) ==
    IF (distance % _NOTES_PER_OCTAVE) \in {0, 3, 4}
    THEN IF contains(_PERFECT_INTERVAL_TYPES, interval_type)
         THEN <<index(_PERFECT_INTERVAL_TYPES, interval_type) - 1>>
         ELSE <<>>
    ELSE IF contains(_INTERVAL_TYPES, interval_type)
         THEN <<index(_INTERVAL_TYPES, interval_type) - 2>>
         ELSE <<>>

\* Interval._parse_short_name of a shorthand such as 'm3', given as the two
\* groups of its regular expression <<'m', 3>>: <<(distance, interval_type)>>,
\* or <<>> for ValueError
Interval_parse_short_name(shorthand) ==
    IF ~ contains(_TYPE_ABBREV, shorthand[1]) THEN <<>>
    ELSE IF shorthand[2] = 0 THEN <<>>
    ELSE << <<abs(shorthand[2]) - 1,
              _ALL_TYPES[index(_TYPE_ABBREV, shorthand[1]) + 1]>> >>

\* the part of Interval.__init__ from "if (interval_name is not None or
\* distance is not None)" on; interval_name is <<"str", name>> or <<"int", n>>
Interval__init__named(interval_type, interval_name, distance, accidental, steps, isotonic) ==
    IF interval_name # <<>> \/ distance # <<>>
    THEN LET mydistance ==
                 IF interval_name = <<>> THEN distance
                 ELSE IF interval_name[1][1] = "str"
                      THEN _interval_name_to_distance(interval_name[1][2])
                      ELSE <<interval_name[1][2] - 1>>
         IN  IF mydistance = <<>> THEN Raise("ValueError")
             ELSE IF interval_name # <<>> /\ distance # <<>>
                     /\ distance[1] # mydistance[1]
             THEN Raise("ValueError")
             ELSE LET myaccidental ==
                          IF interval_type # <<>>
                          THEN _interval_type_to_accidental(mydistance[1],
                                                            interval_type[1])
                          ELSE IF accidental = <<>> THEN <<0>>
                          ELSE accidental
                  IN  IF myaccidental = <<>> THEN Raise("ValueError")
                      ELSE IF interval_type # <<>> /\ accidental # <<>>
                              /\ accidental[1] # myaccidental[1]
                      THEN Raise("ValueError")
                      ELSE LET this == _scale_num_to_name(mydistance[1])
                           IN  Note__init__("Interval", <<>>, <<this[1]>>,
                                   myaccidental, <<this[2]>>, <<>>, steps,
                                   FALSE, FALSE, isotonic)
    ELSE IF interval_type # <<>> \/ accidental # <<>> THEN Raise("ValueError")
    ELSE IF steps = <<>> THEN Raise("ValueError")
    ELSE Note__init__("Interval", <<>>, <<>>, <<>>, <<>>, <<>>, steps,
                      FALSE, FALSE, isotonic)

\* Interval.__init__; short is <<"note", n>> for a Note n or <<"str", s>>
\* for a shorthand s
Interval__init__(short, interval_type, interval_name, distance, accidental, steps, isotonic) ==
    IF short # <<>>
    THEN IF interval_name # <<>> \/ distance # <<>> \/ steps # <<>>
         THEN Raise("ValueError")
         ELSE IF short[1][1] = "note"
         THEN Note__init__("Interval", <<short[1][2]>>, <<>>, <<>>, <<>>,
                           <<>>, <<>>, FALSE, FALSE, <<>>)
         ELSE LET parsed == Interval_parse_short_name(short[1][2])
              IN  IF parsed = <<>> THEN Raise("ValueError")
                  ELSE Interval__init__named(<<parsed[1][2]>>, interval_name,
                           <<parsed[1][1]>>, accidental, steps, isotonic)
    ELSE Interval__init__named(interval_type, interval_name, distance,
                               accidental, steps, isotonic)

\* Interval('m3') and the like
Interval_from_short(abbrev, number) ==
    Interval__init__(<< <<"str", <<abbrev, number>> >> >>, <<>>, <<>>, <<>>,
                     <<>>, <<>>, <<>>).obj[1]

(* class Note: methods *)

Note__eq__(self, other) ==
    IF self.isotonic_is_equal /\ other.isotonic_is_equal
    THEN Note_steps(self) = Note_steps(other)
    ELSE /\ self.name = other.name
         /\ self.accidental = other.accidental
         /\ self.octave = other.octave

Note__cmp__(self, other) ==
    IF self.isotonic_is_equal /\ other.isotonic_is_equal
    THEN cmp(Note_steps(self), Note_steps(other))
    ELSE LET retval == cmp(Note_scale_num(self), Note_scale_num(other))
         IN  IF retval # 0 THEN retval
             ELSE cmp(self.accidental, other.accidental)

\* self < other: Note defines no __lt__, so Python 2 falls back on __cmp__
Note__lt__(self, other) == Note__cmp__(self, other) < 0

\* self > other, through __cmp__ as well
Note__gt__(self, other) == Note__cmp__(self, other) > 0

\* the builtin hash of an int: the int itself, except that -1 hashes to -2;
\* of a tuple (name, accidental, octave): CPython's value has 19 digits for
\* every tuple within the bounds of this model, so it is the hash of no
\* steps; it is written here as the tuple itself.  Both carry a tag.
hash_int(n) == <<"int", IF n = -1 THEN -2 ELSE n>>

hash_tuple(t) == <<"tuple">> \o t

Note__hash__(self) ==
    IF self.isotonic_is_equal THEN hash_int(Note_steps(self))
    ELSE hash_tuple(<<self.name, self.accidental, self.octave>>)

Note__add__as_note(self, other) ==
    LET scale_num  == Note_scale_num(self) + Note_scale_num(other)
        accidental == Note_steps(self) + Note_steps(other)
                          - _scale_num_to_steps(scale_num, 0, 0)
    IN  Note_from_scale_num(scale_num, accidental)

Note__add__(self, other) ==
    LET scale_num  == Note_scale_num(self) + Note_scale_num(other)
        accidental == Note_steps(self) + Note_steps(other)
                          - _scale_num_to_steps(scale_num, 0, 0)
    IN  IF self.cls = "Interval"
        THEN Interval_from_distance(scale_num, accidental)
        ELSE Note_from_scale_num(scale_num, accidental)

Note__sub__unsigned(self, other) ==
    LET distance == abs(Note_scale_num(self) - Note_scale_num(other))
        steps    == abs(Note_steps(self) - Note_steps(other))
    IN  IF self.cls # "Interval" /\ other.cls = "Interval"
        THEN Note_from_scale_num(distance,
                 steps - _scale_num_to_steps(distance, 0, 0))
        ELSE Interval_from_distance(distance,
                 steps - _scale_num_to_steps(distance, 0, 0))

Note__sub__signed(self, other) ==
    LET distance == Note_scale_num(self) - Note_scale_num(other)
        steps    == Note_steps(self) - Note_steps(other)
    IN  IF self.cls # "Interval" /\ other.cls = "Interval"
        THEN Note_from_scale_num(distance,
                 steps - _scale_num_to_steps(distance, 0, 0))
        ELSE Interval_from_distance(distance,
                 steps - _scale_num_to_steps(distance, 0, 0))

Note__sub__(self, other) ==
    LET distance == Note_scale_num(self) - Note_scale_num(other)
        steps    == Note_steps(self) - Note_steps(other)
    IN  IF self.cls # "Interval" /\ other.cls = "Interval"
        THEN Note_from_scale_num(distance,
                 steps - _scale_num_to_steps(distance, 0, 0))
        ELSE Interval_from_distance(abs(distance),
                 abs(steps) - _scale_num_to_steps(abs(distance), 0, 0))

\* Note.match(other, nooctave=True)
Note_match(self, other) ==
    (Note_steps(self) - Note_steps(other)) % _STEPS_PER_OCTAVE = 0

---------------------------------------------------------------------------
(* Note and Interval constants *)

C  == Note_from_name("C", 0, 0, TRUE)
Cs == Note_from_name("C", 1, 0, TRUE)
D  == Note_from_name("D", 0, 0, TRUE)
E  == Note_from_name("E", 0, 0, TRUE)
F  == Note_from_name("F", 0, 0, TRUE)
Fs == Note_from_name("F", 1, 0, TRUE)
G  == Note_from_name("G", 0, 0, TRUE)
A  == Note_from_name("A", 0, 0, TRUE)
B  == Note_from_name("B", 0, 0, TRUE)
C1 == Note_from_name("C", 0, 1, TRUE)
D1 == Note_from_name("D", 0, 1, TRUE)
E1 == Note_from_name("E", 0, 1, TRUE)
F1 == Note_from_name("F", 0, 1, TRUE)

\* Interval('M3'), Interval('P5'): distance 2 and 4, accidental 0
M3 == Interval_from_distance(2, 0)
P5 == Interval_from_distance(4, 0)

m3 == Interval_from_short("m", 3)
d5 == Interval_from_short("d", 5)
A5 == Interval_from_short("A", 5)
d7 == Interval_from_short("d", 7)
m7 == Interval_from_short("m", 7)
M7 == Interval_from_short("M", 7)

---------------------------------------------------------------------------
(* class Chord *)

\* list.sort() of a short list, as CPython sorts it: the run the list begins
\* with is found (count_run) and reversed when strictly descending, then
\* every later element is inserted by binary search (binarysort).  The
\* comparison is Note's <.
RECURSIVE run_end(_, _, _)
run_end(a, k, descending) ==
    IF k > Len(a) THEN Len(a)
    ELSE IF Note__lt__(a[k], a[k - 1]) = descending
         THEN run_end(a, k + 1, descending)
         ELSE k - 1

reverse(a) == [k \in 1..Len(a) |-> a[Len(a) + 1 - k]]

\* the place of pivot among a[l..r-1]
RECURSIVE bisect(_, _, _, _)
bisect(a, pivot, l, r) ==
    IF l >= r THEN l
    ELSE LET p == l + ((r - l) \div 2)
         IN  IF Note__lt__(pivot, a[p]) THEN bisect(a, pivot, l, p)
             ELSE bisect(a, pivot, p + 1, r)

RECURSIVE binarysort(_, _)
binarysort(a, start) ==
    IF start > Len(a) THEN a
    ELSE LET l == bisect(a, a[start], 1, start)
         IN  binarysort(SubSeq(a, 1, l - 1) \o <<a[start]>>
                            \o SubSeq(a, l, start - 1)
                            \o SubSeq(a, start + 1, Len(a)),
                        start + 1)

sort_as_given(notelist) == notelist

sort(notelist) ==
    IF Len(notelist) < 2 THEN notelist
    ELSE LET descending == Note__lt__(notelist[2], notelist[1])
             n          == run_end(notelist, 3, descending)
             run        == SubSeq(notelist, 1, n)
         IN  binarysort((IF descending THEN reverse(run) ELSE run)
                            \o SubSeq(notelist, n + 1, Len(notelist)),
                        n + 1)

\* Chord._QUALITIES: a dict, written here as the sequence of its items
_QUALITIES ==
    << [name |-> "major",                   intervals |-> <<M3, P5>>],
       [name |-> "minor",                   intervals |-> <<m3, P5>>],
       [name |-> "augmented",               intervals |-> <<M3, A5>>],
       [name |-> "diminished",              intervals |-> <<m3, d5>>],
       [name |-> "dominant-seventh",        intervals |-> <<M3, P5, m7>>],
       [name |-> "minor-seventh",           intervals |-> <<m3, P5, m7>>],
       [name |-> "major-seventh",           intervals |-> <<M3, P5, M7>>],
       [name |-> "augmented-seventh",       intervals |-> <<M3, A5, m7>>],
       [name |-> "diminished-seventh",      intervals |-> <<m3, d5, d7>>],
       [name |-> "half-diminished-seventh", intervals |-> <<m3, d5, m7>>] >>

\* Chord._KEY_CHORDS
_KEY_CHORDS ==
    [n \in {"I", "II", "III", "IV", "V", "VI", "VII"} |->
        CASE n = "I" -> 1 [] n = "II" -> 2 [] n = "III" -> 3 [] n = "IV" -> 4
          [] n = "V" -> 5 [] n = "VI" -> 6 [] n = "VII" -> 7]

\* quality.endswith('-seventh')
_quality_is_seventh(quality) ==
    quality \in {"dominant-seventh", "minor-seventh", "major-seventh",
                 "augmented-seventh", "diminished-seventh",
                 "half-diminished-seventh"}

\* quality[:3]
first3(quality) ==
    CASE quality \in {"major", "major-seventh"} -> "maj"
      [] quality \in {"minor", "minor-seventh"} -> "min"
      [] quality \in {"augmented", "augmented-seventh"} -> "aug"
      [] quality \in {"diminished", "diminished-seventh"} -> "dim"
      [] quality = "dominant-seventh" -> "dom"
      [] quality = "half-diminished-seventh" -> "hal"

\* short.upper() of a scale-degree name
upper(short) ==
    CASE short = "i" -> "I" [] short = "ii" -> "II" [] short = "iii" -> "III"
      [] short = "iv" -> "IV" [] short = "v" -> "V" [] short = "vi" -> "VI"
      [] short = "vii" -> "VII" [] OTHER -> short

\* Chord._quality_to_intervals of a full quality name, as Chord.__init__
\* calls it: <<intervals>>, or <<>> for None
_quality_to_intervals(string) ==
    IF \E q \in 1..Len(_QUALITIES) : _QUALITIES[q].name = string
    THEN <<_QUALITIES[CHOOSE q \in 1..Len(_QUALITIES) :
                          _QUALITIES[q].name = string].intervals>>
    ELSE <<>>

_intervals_to_quality_by_triad(intervals) ==
    IF Len(intervals) \in {2, 3}
    THEN {_QUALITIES[q].name : q \in {q \in 1..Len(_QUALITIES) :
              \A k \in 1..2 :
                  Note__eq__(intervals[k], _QUALITIES[q].intervals[k])}}
    ELSE {}

\* Chord._intervals_to_quality: the loop returns the first quality, in the
\* dict's iteration order, whose intervals equal the given ones.  The order
\* of a dict is not fixed by the language, so this is the set of the
\* qualities the loop can return; {} stands for None.
_intervals_to_quality(intervals) ==
    IF Len(intervals) \in {2, 3}
    THEN {_QUALITIES[q].name : q \in {q \in 1..Len(_QUALITIES) :
              /\ Len(_QUALITIES[q].intervals) = Len(intervals)
              /\ \A k \in 1..Len(intervals) :
                     Note__eq__(intervals[k], _QUALITIES[q].intervals[k])}}
    ELSE {}

\* Chord._notes_to_intervals(notes)
_notes_to_intervals(notes) ==
    [k \in 1..(Len(notes) - 1) |-> Note__sub__(notes[k + 1], notes[1])]

\* Chord._parse_short(short, key).  A short name is given by the pieces the
\* method cuts it into: seventh (it ends with '7'), text (the name without
\* that 7), tail (the last three characters of text) and head (what
\* Note(short=text[:-3]) reads, <<>> when that raises).  Returns
\* <<(root, quality)>>, or <<>> for ValueError.
_parse_short(short, key) ==
    LET named == {q \in 1..Len(_QUALITIES) :
                     /\ _quality_is_seventh(_QUALITIES[q].name) = short.seventh
                     /\ short.tail = first3(_QUALITIES[q].name)}
    IN  IF short.head # <<>> /\ named # {}
        THEN << <<Note__init__("Note", short.head, <<>>, <<>>, <<>>, <<>>,
                               <<>>, FALSE, FALSE, <<>>).obj[1],
                  _QUALITIES[CHOOSE q \in named : TRUE].name>> >>
        ELSE IF upper(short.text) \in DOMAIN _KEY_CHORDS
        THEN LET key1      == IF key = <<>> THEN C ELSE key[1]
                 scale_num == _KEY_CHORDS[upper(short.text)] - 1
                 root      == Note__init__("Note", <<>>, <<>>, <<>>, <<0>>,
                                  <<scale_num>>, <<>>, FALSE, FALSE,
                                  <<>>).obj[1]
             IN  << <<Note__add__(root, key1),
                      IF short.text = upper(short.text) THEN "major"
                      ELSE IF short.text = "vii" THEN "diminished"
                      ELSE "minor">> >>
        ELSE <<>>

\* the value of a local variable: the one element of a singleton
the(singleton) == CHOOSE x \in singleton : TRUE

\* Chord.__init__(short, notes, key); notes is <<>> for None, else
\* <<the sequence of notes>>.  The locals (root, quality) and intervals are
\* bound once, as parsed and intervals.
Chord__init__(short, notes, key) ==
    IF short # <<>>
    THEN IF notes # <<>> THEN Raise("ValueError")
         ELSE the({
             IF parsed = <<>> THEN Raise("ValueError")
             ELSE the({
                 Return_([notes |-> <<parsed[1][1]>> \o
                              [k \in 1..Len(intervals) |->
                                  Note__add__(parsed[1][1], intervals[k])],
                          key |-> key]) :
                 intervals \in {_quality_to_intervals(parsed[1][2])[1]}}) :
             parsed \in {_parse_short(short[1], key)}})
    ELSE IF notes = <<>> THEN Raise("TypeError")
    ELSE IF Len(notes[1]) = 0 THEN Raise("ValueError")
    ELSE Return_([notes |-> sort(notes[1]), key |-> key])

\* Chord(notes=notes, key=key); key is <<>> for None
Chord_from_notes(notes, key) == [notes |-> sort(notes), key |-> key]

\* Chord(short='Xmaj'), Chord(short='Xmin'): the root plus the quality's intervals
Chord_from_short(root, intervals) ==
    [notes |-> <<root>> \o [k \in 1..Len(intervals) |-> Note__add__(root, intervals[k])],
     key   |-> <<>>]

Chord_root(self) ==
    IF self.key = <<>> THEN self.notes[1]
    ELSE Note__add__(self.notes[1], self.key[1])

\* Chord._notes_to_intervals(self.notes)
Chord_intervals(self) ==
    [k \in 1..(Len(self.notes) - 1) |-> Note__sub__(self.notes[k + 1], self.notes[1])]

\* Chord.quality: the values the property can have
Chord_quality(self) ==
    IF _intervals_to_quality(_notes_to_intervals(self.notes)) = {}
    THEN {"Unknown"}
    ELSE _intervals_to_quality(_notes_to_intervals(self.notes))

Chord_real_notes(self) ==
    IF self.key = <<>> THEN self.notes
    ELSE [k \in 1..Len(self.notes) |-> Note__add__(self.key[1], self.notes[k])]

Chord__add__(self, other) ==
    LET real == Chord_real_notes(self)
    IN  Chord_from_notes([k \in 1..Len(real) |-> Note__add__(real[k], other)], <<>>)

\* Chord.has_note(note, exact=False)
Chord_has_note(self, note) ==
    LET real == Chord_real_notes(self)
    IN  \E k \in 1..Len(real) : Note_match(real[k], note)

\* Chord.match(other, nooctave=True): zip stops at the shorter chord
Chord_match(self, other) ==
    LET s == Chord_real_notes(self)
        o == Chord_real_notes(other)
        n == IF Len(s) < Len(o) THEN Len(s) ELSE Len(o)
    IN  \A k \in 1..n : Note_match(s[k], o[k])

\* a == b for two tuples of Notes
tuple__eq__(a, b) ==
    /\ Len(a) = Len(b)
    /\ \A k \in 1..Len(a) : Note__eq__(a[k], b[k])

---------------------------------------------------------------------------
(* Chord constants and the progression tables *)

Cmaj == Chord_from_short(C, <<M3, P5>>)

I   == Chord_from_notes(<<C, E, G>>, <<>>)
ii  == Chord_from_notes(<<D, F, A>>, <<>>)
iii == Chord_from_notes(<<E, G, B>>, <<>>)
IV  == Chord_from_notes(<<F, A, C1>>, <<>>)
V   == Chord_from_notes(<<G, B, D1>>, <<>>)
vi  == Chord_from_notes(<<A, C1, E1>>, <<>>)
vii == Chord_from_notes(<<B, D1, F1>>, <<>>)

PROGRESSIONS ==
    << <<I, IV>>, <<IV, vii>>, <<vii, iii>>, <<iii, vi>>, <<vi, ii>>,
       <<ii, V>>, <<V, I>>,
       <<I, V>>, <<V, vi>>, <<vi, iii>>, <<iii, IV>>, <<IV, I>>, <<IV, V>>,
       <<I, vi>>, <<vi, IV>>, <<IV, vi>>, <<IV, ii>>, <<ii, IV>>, <<ii, vi>>,
       <<vi, ii>>,
       <<IV, I>>, <<I, iii>>, <<vi, V>>, <<V, vi>>, <<V, ii>> >>

CADENCES ==
    << <<V, I>>, <<IV, I>>, <<I, V>>, <<ii, V>>, <<IV, V>>,
       <<V, vi>>, <<V, IV>>, <<V, ii>> >>

---------------------------------------------------------------------------
(* The harmonization search *)

\* seq[k] for a Python index k, which counts from the end when negative
py_index(seq, k) == IF k < 0 THEN seq[Len(seq) + k + 1] ELSE seq[k + 1]

apply_progression_any_shape(progression, chord) ==
    LET chord_root == Chord_real_notes(chord)[1]
        succ_root  == Chord_real_notes(progression[2])[1]
        intv0      == Note__sub__(chord_root, succ_root)
        intv       == IF Note__lt__(chord_root, succ_root)
                      THEN Note__sub__(C, intv0)
                      ELSE Note_from_note(intv0)
    IN  <<Chord__add__(progression[1], intv), intv>>

\* (None, None) is <<>>; (chord, intv) is <<chord, intv>>
apply_progression(progression, chord) ==
    IF tuple__eq__(Chord_intervals(progression[2]), Chord_intervals(chord))
    THEN LET chord_root == Chord_real_notes(chord)[1]
             succ_root  == Chord_real_notes(progression[2])[1]
             intv0      == Note__sub__(chord_root, succ_root)
             intv       == IF Note__lt__(chord_root, succ_root)
                           THEN Note__sub__(C, intv0)
                           ELSE Note_from_note(intv0)
         IN  <<Chord__add__(progression[1], intv), intv>>
    ELSE <<>>

melody_note_at_step(harmonization, mel) ==
    py_index(mel, Len(mel) - Len(harmonization))

\* step = len(melody) - len(harmonization); melody_note = melody[step-1]
melody_note_of(harmonization, mel) ==
    py_index(mel, (Len(mel) - Len(harmonization)) - 1)

progressions_always_interior(harmonization) == PROGRESSIONS

\* the default of the progressions argument
progressions_of(harmonization) ==
    IF Len(harmonization) = 1 THEN CADENCES ELSE PROGRESSIONS

accepted_without_seen(applied, melody_note, seen) ==
    /\ applied # <<>>
    /\ Chord_has_note(applied[1], melody_note)

\* the condition under which get_harmonizations appends a candidate
accepted(applied, melody_note, seen) ==
    /\ applied # <<>>
    /\ Chord_has_note(applied[1], melody_note)
    /\ ~ \E k \in 1..Len(seen) : Chord_match(seen[k], applied[1])

new_harm_without_rest(chord, harmonization) == <<chord>>

\* new_harm = [chord]; new_harm.extend(harmonization)
new_harm_of(chord, harmonization) == <<chord>> \o harmonization

\* the loop of get_harmonizations from table entry k on; acc is
\* [harmonizations, seen]
RECURSIVE get_harmonizations_loop(_, _, _, _, _)
get_harmonizations_loop(progressions, k, harmonization, melody_note, acc) ==
    IF k > Len(progressions) THEN acc.harmonizations
    ELSE LET applied == apply_progression(progressions[k], harmonization[1])
         IN  IF accepted(applied, melody_note, acc.seen)
             THEN get_harmonizations_loop(progressions, k + 1, harmonization,
                      melody_note,
                      [harmonizations |->
                           Append(acc.harmonizations,
                                  new_harm_of(applied[1], harmonization)),
                       seen |-> Append(acc.seen, applied[1])])
             ELSE get_harmonizations_loop(progressions, k + 1, harmonization,
                      melody_note, acc)

\* get_harmonizations(harmonization, melody, progressions=None)
get_harmonizations(harmonization, mel) ==
    get_harmonizations_loop(progressions_of(harmonization), 1, harmonization,
        melody_note_of(harmonization, mel),
        [harmonizations |-> <<>>, seen |-> <<>>])

RECURSIVE fill_harmonizations_keeping_dead(_, _)
fill_harmonizations_keeping_dead(harms, mel) ==
    IF harms = <<>> THEN <<>>
    ELSE (IF get_harmonizations(Head(harms), mel) = <<>> THEN <<Head(harms)>>
          ELSE get_harmonizations(Head(harms), mel))
             \o fill_harmonizations_keeping_dead(Tail(harms), mel)

RECURSIVE fill_harmonizations_last_parent_first(_, _)
fill_harmonizations_last_parent_first(harms, mel) ==
    IF harms = <<>> THEN <<>>
    ELSE fill_harmonizations_last_parent_first(Tail(harms), mel)
             \o get_harmonizations(Head(harms), mel)

RECURSIVE fill_harmonizations(_, _)
fill_harmonizations(harms, mel) ==
    IF harms = <<>> THEN <<>>
    ELSE get_harmonizations(Head(harms), mel)
             \o fill_harmonizations(Tail(harms), mel)

final_chord_on_first_note(mel, final) ==
    IF final = <<>> THEN Chord__add__(Cmaj, py_index(mel, 0)) ELSE final[1]

\* the final chord harmonize starts from
final_chord_of(mel, final) ==
    IF final = <<>> THEN Chord__add__(Cmaj, py_index(mel, -1)) ELSE final[1]

---------------------------------------------------------------------------
(* Inputs of harmonize *)

MelodyNotes == {C, D, E, Fs}

Melodies == UNION {[1..n -> MelodyNotes] : n \in 1..MaxMelodyLen}

\* Chord(notes=(A, C1, E1)): A minor
Amin == Chord_from_notes(<<A, C1, E1>>, <<>>)
\* Chord(notes=(C, E, G), key=D): the I chord in the key of D
I_in_D == Chord_from_notes(<<C, E, G>>, <<D>>)
\* Chord(notes=(B, D1, F1)): B diminished
Bdim == Chord_from_notes(<<B, D1, F1>>, <<>>)
\* Chord(notes=(Note('Bx-1', isotonic=False), Note('E#', isotonic=False),
\* Note('G#', isotonic=False))): C sharp major spelled from B double sharp,
\* its notes compared under the exact policy
Bxmaj_exact == Chord_from_notes(<<Note_from_name("B", 2, -1, FALSE),
                                  Note_from_name("E", 1, 0, FALSE),
                                  Note_from_name("G", 1, 0, FALSE)>>, <<>>)

\* Chord(notes=(G, B, D1, F1)): G dominant seventh
Gdom7 == Chord_from_notes(<<G, B, D1, F1>>, <<>>)
\* Chord(notes=(C,)): a single note
Calone == Chord_from_notes(<<C>>, <<>>)
\* Chord(notes=(C, F, G)): a suspended fourth, a triad without a name
Csus4 == Chord_from_notes(<<C, F, G>>, <<>>)

FinalChords == {Cmaj, Amin, I_in_D, Bdim, Bxmaj_exact, Gdom7, Calone, Csus4}

FinalChordArgs == {<<>>} \cup {<<c>> : c \in FinalChords}

---------------------------------------------------------------------------
(* harmonize as a state machine: one action per statement of its body *)

conv_idle  == in_steps = 0 /\ in_flat = FALSE /\ out_tuple = <<>> /\ out_steps = <<>>
arith_idle ==
    /\ lhs = C /\ rhs = C
    /\ diff = <<>> /\ rdiff = <<>>
    /\ sum = <<>> /\ rsum = <<>>

cmp_idle ==
    /\ k_a = C /\ k_b = C /\ k_c = C
    /\ k_cmp = <<>> /\ k_hash = <<>>

frozen_idle ==
    /\ f_cls = "Note"
    /\ f_dict = <<>>
    /\ f_live = FALSE
    /\ f_call = <<>>

chord_idle ==
    /\ c_short = <<>> /\ c_notes = <<>> /\ c_key = <<>>
    /\ c_chord = <<>> /\ c_quality = <<>> /\ c_added = 0

new_idle == new_cls = "Note" /\ new_args = <<>> /\ new_result = <<>>

apply_idle == p_progression = <<I, I>> /\ p_chord = I /\ p_applied = <<>>

scale_idle == s_num = 0 /\ s_steps = <<>>

Init ==
    /\ melody \in Melodies
    /\ final_chord \in FinalChordArgs
    /\ harmonizations = <<>>
    /\ i = 0
    /\ pc = "start"
    /\ conv_idle
    /\ arith_idle
    /\ chord_idle
    /\ frozen_idle
    /\ cmp_idle
    /\ new_idle
    /\ apply_idle
    /\ scale_idle

more_rounds_to_len == i < Len(melody)

\* the loop condition of: for i in range(len(melody)-1)
more_rounds == i < Len(melody) - 1

\* if final_chord is None: final_chord = Cmaj + melody[-1]
\* harmonizations = [[final_chord]]
Start ==
    /\ pc = "start"
    /\ harmonizations' = << <<final_chord_of(melody, final_chord)>> >>
    /\ pc' = "loop"
    /\ UNCHANGED <<melody, final_chord, i, outside_harm>>

\* one iteration of the loop: harmonizations = fill_harmonizations(...)
Round ==
    /\ pc = "loop"
    /\ more_rounds
    /\ harmonizations' = fill_harmonizations(harmonizations, melody)
    /\ i' = i + 1
    /\ UNCHANGED <<melody, final_chord, pc, outside_harm>>

\* return harmonizations
Return ==
    /\ pc = "loop"
    /\ ~ more_rounds
    /\ pc' = "done"
    /\ UNCHANGED <<melody, final_chord, harmonizations, i, outside_harm>>

Next == Start \/ Round \/ Return

Spec == Init /\ [][Next]_vars

---------------------------------------------------------------------------
(* The conversions between steps and (scale_num, accidental, octave) *)

harm_idle ==
    /\ melody = <<>>
    /\ final_chord = <<>>
    /\ harmonizations = <<>>
    /\ i = 0
    /\ pc = "idle"

InitConv ==
    /\ in_steps \in (-MaxSteps)..MaxSteps
    /\ in_flat \in BOOLEAN
    /\ out_tuple = <<>>
    /\ out_steps = <<>>
    /\ harm_idle
    /\ arith_idle
    /\ chord_idle
    /\ frozen_idle
    /\ cmp_idle
    /\ new_idle
    /\ apply_idle
    /\ scale_idle

\* Note._steps_to_scale_num(steps, flat)
StepsToScaleNum ==
    /\ out_tuple = <<>>
    /\ out_tuple' = <<_steps_to_scale_num(in_steps, in_flat)>>
    /\ UNCHANGED <<in_steps, in_flat, out_steps, outside_conv>>

\* Note._scale_num_to_steps(*t) for the tuple t returned above
ScaleNumToSteps ==
    /\ out_tuple # <<>>
    /\ out_steps = <<>>
    /\ out_steps' = <<_scale_num_to_steps(out_tuple[1][1], out_tuple[1][2],
                                          out_tuple[1][3])>>
    /\ UNCHANGED <<in_steps, in_flat, out_tuple, outside_conv>>

NextConv == StepsToScaleNum \/ ScaleNumToSteps

SpecConv == InitConv /\ [][NextConv]_vars

---------------------------------------------------------------------------
(* Note arithmetic *)

\* plain Notes and Intervals, built as Note(name=, accidental=, octave=) and
\* Interval(distance=, accidental=)
ArithNotes ==
    {Note_from_name(_NOTE_ORDER[n], a, o, TRUE) :
        n \in 1.._NOTES_PER_OCTAVE,
        a \in (-MaxAccidental)..MaxAccidental,
        o \in (-MaxOctave)..MaxOctave}

ArithIntervals ==
    {Interval_from_distance(d, a) :
        d \in 0..(_NOTES_PER_OCTAVE * (MaxOctave + 1) - 1),
        a \in (-MaxAccidental)..MaxAccidental}

ArithOperands == ArithNotes \cup ArithIntervals

InitArith ==
    /\ lhs \in ArithOperands
    /\ rhs \in ArithOperands
    /\ diff = <<>>
    /\ rdiff = <<>>
    /\ sum = <<>>
    /\ rsum = <<>>
    /\ harm_idle
    /\ conv_idle
    /\ chord_idle
    /\ frozen_idle
    /\ cmp_idle
    /\ new_idle
    /\ apply_idle
    /\ scale_idle

\* lhs - rhs
Sub ==
    /\ diff = <<>>
    /\ diff' = <<Note__sub__(lhs, rhs)>>
    /\ UNCHANGED <<lhs, rhs, rdiff, sum, rsum, outside_arith>>

\* rhs - lhs
SubReversed ==
    /\ rdiff = <<>>
    /\ rdiff' = <<Note__sub__(rhs, lhs)>>
    /\ UNCHANGED <<lhs, rhs, diff, sum, rsum, outside_arith>>

\* lhs + rhs
Add ==
    /\ sum = <<>>
    /\ sum' = <<Note__add__(lhs, rhs)>>
    /\ UNCHANGED <<lhs, rhs, diff, rdiff, rsum, outside_arith>>

\* rhs + lhs
AddReversed ==
    /\ rsum = <<>>
    /\ rsum' = <<Note__add__(rhs, lhs)>>
    /\ UNCHANGED <<lhs, rhs, diff, rdiff, sum, outside_arith>>

NextArith == Sub \/ SubReversed \/ Add \/ AddReversed

SpecArith == InitArith /\ [][NextArith]_vars

---------------------------------------------------------------------------
(* Chord construction, the quality property and transposition *)

\* Note._ACCIDENTAL_SYMS[accidental + 2]
accidental_sym(accidental) ==
    CASE accidental = -2 -> "bb" [] accidental = -1 -> "b" [] accidental = 0 -> ""
      [] accidental = 1 -> "#" [] accidental = 2 -> "x"

\* roots of the short names: every letter with the accidentals within the bound
ChordRoots ==
    {Note_from_name(_NOTE_ORDER[n], a, 0, TRUE) :
        n \in 1.._NOTES_PER_OCTAVE, a \in (-MaxAccidental)..MaxAccidental}

\* short names such as 'Dmin7': a root, three letters of a quality and
\* perhaps a 7; 'Cdom' and 'Chal' name no quality
NoteShorts ==
    {[head |-> <<r>>, tail |-> t,
      text |-> r.name \o accidental_sym(r.accidental) \o t, seventh |-> s] :
        r \in ChordRoots, t \in {"maj", "min", "aug", "dim", "dom", "hal"},
        s \in BOOLEAN}

\* the scale-degree names, all in upper or all in lower case
DegreeShorts ==
    {[head |-> <<>>, tail |-> d, text |-> d, seventh |-> FALSE] :
        d \in {"I", "II", "III", "IV", "V", "VI", "VII",
               "i", "ii", "iii", "iv", "v", "vi", "vii"}}

\* B sharp, and C flat an octave up compared under the exact policy
Bs   == Note_from_name("B", 1, 0, TRUE)
Cb1x == Note_from_name("C", -1, 1, FALSE)

ChordNotePool == {C, E, G, Bs, Cb1x, C1}

\* the notes arguments: up to MaxChordNotes notes of the pool in any order,
\* and one chord of five notes
ChordNoteArgs ==
    UNION {[1..n -> ChordNotePool] : n \in 0..MaxChordNotes}
        \cup {<<C, E, G, B, D1>>}

ChordKeyArgs == {<<>>, <<C>>, <<D>>, <<G>>}

\* what a chord is transposed by
ChordAddends == {D, M3}

InitChord ==
    /\ \/ c_short \in {<<sh>> : sh \in NoteShorts \cup DegreeShorts}
          /\ c_notes = <<>>
       \/ c_short = <<>>
          /\ c_notes \in {<<ns>> : ns \in ChordNoteArgs}
    /\ c_key \in ChordKeyArgs
    /\ c_chord = <<>>
    /\ c_quality = <<>>
    /\ c_added = 0
    /\ harm_idle
    /\ conv_idle
    /\ arith_idle
    /\ frozen_idle
    /\ cmp_idle
    /\ new_idle
    /\ apply_idle
    /\ scale_idle

\* Chord(short=c_short, notes=c_notes, key=c_key)
ChordInit ==
    /\ c_chord = <<>>
    /\ c_chord' = <<Chord__init__(c_short, c_notes, c_key)>>
    /\ UNCHANGED <<c_short, c_notes, c_key, c_quality, c_added, outside_chord>>

\* the chord exists: its constructor returned it
Constructed == c_chord # <<>> /\ c_chord[1].raised = ""

\* chord.quality
ReadQuality ==
    /\ Constructed
    /\ c_quality = <<>>
    /\ \E q \in Chord_quality(c_chord[1].obj[1]) : c_quality' = <<q>>
    /\ UNCHANGED <<c_short, c_notes, c_key, c_chord, c_added, outside_chord>>

\* chord = chord + other
ChordAdd ==
    /\ Constructed
    /\ c_added < MaxAdds
    /\ \E other \in ChordAddends :
           c_chord' = <<Return_(Chord__add__(c_chord[1].obj[1], other))>>
    /\ c_quality' = <<>>
    /\ c_added' = c_added + 1
    /\ UNCHANGED <<c_short, c_notes, c_key, outside_chord>>

NextChord == ChordInit \/ ReadQuality \/ ChordAdd

SpecChord == InitChord /\ [][NextChord]_vars

---------------------------------------------------------------------------
(* A FrozenClass instance and the calls made on it *)

InitFrozen ==
    /\ f_cls \in {"Note", "Interval", "Chord"}
    /\ f_dict = empty_dict
    /\ f_live = FALSE
    /\ f_call = <<>>
    /\ harm_idle
    /\ conv_idle
    /\ arith_idle
    /\ chord_idle
    /\ cmp_idle
    /\ new_idle
    /\ apply_idle
    /\ scale_idle

\* inst = cls(...)
Construct ==
    /\ ~ f_live
    /\ \E isotonic_given \in BOOLEAN :
           f_dict' = construct(f_cls, isotonic_given)
    /\ f_live' = TRUE
    /\ f_call' = <<[op |-> "init", key |-> "", raised |-> ""]>>
    /\ UNCHANGED <<f_cls, outside_frozen>>

\* inst.key = value
SetAttr ==
    /\ f_live
    /\ \E key \in FrozenKeys, value \in {"changed", "False"} :
           /\ f_dict' = FrozenClass__setattr__(f_dict, key, value).dict
           /\ f_call' = <<[op |-> "setattr", key |-> key,
                           raised |-> FrozenClass__setattr__(f_dict, key,
                                                             value).raised]>>
    /\ UNCHANGED <<f_cls, f_live, outside_frozen>>

\* del inst.key
DelAttr ==
    /\ f_live
    /\ \E key \in FrozenKeys :
           /\ f_dict' = FrozenClass__delattr__(f_dict, key).dict
           /\ f_call' = <<[op |-> "delattr", key |-> key,
                           raised |-> FrozenClass__delattr__(f_dict, key).raised]>>
    /\ UNCHANGED <<f_cls, f_live, outside_frozen>>

\* inst.name for one of the cached properties of its class
ReadCached ==
    /\ f_live
    /\ \E name \in CachedAttributes(f_cls) :
           /\ f_dict' = read_cached(f_dict, name)
           /\ f_call' = <<[op |-> "read", key |-> name, raised |-> ""]>>
    /\ UNCHANGED <<f_cls, f_live, outside_frozen>>

NextFrozen == Construct \/ SetAttr \/ DelAttr \/ ReadCached

SpecFrozen == InitFrozen /\ [][NextFrozen]_vars

---------------------------------------------------------------------------
(* Equality, order and hash of Notes *)

\* Notes on three neighbouring letters, with either policy:
\* Note(name=, accidental=, octave=, isotonic=)
CmpNotes ==
    {Note_from_name(n, a, o, p) :
        n \in {"B", "C", "D"},
        a \in (-MaxAccidental)..MaxAccidental,
        o \in 0..MaxOctave,
        p \in BOOLEAN}

InitCmp ==
    /\ k_a \in CmpNotes
    /\ k_b \in CmpNotes
    /\ k_c \in CmpNotes
    /\ k_cmp = <<>>
    /\ k_hash = <<>>
    /\ harm_idle
    /\ conv_idle
    /\ arith_idle
    /\ chord_idle
    /\ frozen_idle
    /\ new_idle
    /\ apply_idle
    /\ scale_idle

\* x == y, x < y and x > y
compare(x, y) ==
    [eq |-> Note__eq__(x, y), lt |-> Note__lt__(x, y), gt |-> Note__gt__(x, y)]

\* the comparisons of each of the three pairs
Compare ==
    /\ k_cmp = <<>>
    /\ k_cmp' = <<[ab |-> compare(k_a, k_b), bc |-> compare(k_b, k_c),
                   ac |-> compare(k_a, k_c)]>>
    /\ UNCHANGED <<k_a, k_b, k_c, k_hash, outside_cmp>>

\* hash(k_a), hash(k_b)
Hash ==
    /\ k_hash = <<>>
    /\ k_hash' = << <<Note__hash__(k_a), Note__hash__(k_b)>> >>
    /\ UNCHANGED <<k_a, k_b, k_c, k_cmp, outside_cmp>>

NextCmp == Compare \/ Hash

SpecCmp == InitCmp /\ [][NextCmp]_vars

---------------------------------------------------------------------------
(* The constructors of Note and Interval called with every combination of *)
(* keyword arguments                                                      *)

\* an argument left at None, or one of the values
Optional(values) == {<<>>} \cup {<<v>> : v \in values}

\* steps arguments of the calls
StepsArgs == {-1, 0, 1, 2, 3, 4, 7, 12, 13}

\* Note(short=..., name=..., accidental=..., octave=..., scale_num=...,
\*      steps=..., flat=..., sharp=..., isotonic=...)
NoteCalls ==
    [short      : Optional({D}),
     name       : Optional({"C", "D", "B"}),
     accidental : Optional(-MaxAccidental..MaxAccidental),
     octave     : Optional(0..MaxOctave),
     scale_num  : Optional({0, 1, 6, 7}),
     steps      : Optional(StepsArgs),
     flat       : BOOLEAN,
     sharp      : BOOLEAN,
     isotonic   : Optional({FALSE})]

\* Interval(short=..., interval_type=..., interval_name=..., distance=...,
\*          accidental=..., steps=..., isotonic=...)
IntervalCalls ==
    [short         : Optional({<<"note", D>>, <<"str", <<"m", 3>> >>}),
     interval_type : Optional({"DIMINISHED", "MINOR", "MAJOR", "PERFECT",
                               "AUGMENTED"}),
     interval_name : Optional({<<"str", "THIRD">>, <<"str", "FIFTH">>,
                               <<"int", 5>>}),
     distance      : Optional({2, 4, 7}),
     accidental    : Optional(-MaxAccidental..MaxAccidental),
     steps         : Optional({3, 4, 7, 12}),
     isotonic      : Optional({FALSE})]

InitNew ==
    /\ \/ new_cls = "Note" /\ new_args \in NoteCalls
       \/ new_cls = "Interval" /\ new_args \in IntervalCalls
    /\ new_result = <<>>
    /\ harm_idle
    /\ conv_idle
    /\ arith_idle
    /\ chord_idle
    /\ frozen_idle
    /\ cmp_idle
    /\ apply_idle
    /\ scale_idle

\* Note(**new_args)
NoteInit ==
    /\ new_cls = "Note"
    /\ new_result = <<>>
    /\ new_result' =
           <<Note__init__("Note", new_args.short, new_args.name,
                 new_args.accidental, new_args.octave, new_args.scale_num,
                 new_args.steps, new_args.flat, new_args.sharp,
                 new_args.isotonic)>>
    /\ UNCHANGED <<new_cls, new_args, outside_new>>

\* Interval(**new_args)
IntervalInit ==
    /\ new_cls = "Interval"
    /\ new_result = <<>>
    /\ new_result' =
           <<Interval__init__(new_args.short, new_args.interval_type,
                 new_args.interval_name, new_args.distance,
                 new_args.accidental, new_args.steps, new_args.isotonic)>>
    /\ UNCHANGED <<new_cls, new_args, outside_new>>

NextNew == NoteInit \/ IntervalInit

SpecNew == InitNew /\ [][NextNew]_vars

---------------------------------------------------------------------------
(* apply_progression called with every table entry and with triads on roots *)
(* of every spelling                                                        *)

\* Note(short=note, isotonic=isotonic)
with_policy(note, isotonic) ==
    Note__init__("Note", <<note>>, <<>>, <<>>, <<>>, <<>>, <<>>, FALSE, FALSE,
                 <<isotonic>>).obj[1]

\* the roots: every letter, up to two flats or sharps, both policies
ApplyRoots ==
    {Note_from_name(_NOTE_ORDER[n], acc, oct, iso) :
        n \in 1..7, acc \in -2..2, oct \in -MaxOctave..MaxOctave,
        iso \in BOOLEAN}

\* major, minor, diminished and augmented triads
ApplyShapes == {<<M3, P5>>, <<m3, P5>>, <<m3, d5>>, <<M3, A5>>}

\* Chord(notes=(root, root + third, root + fifth), key=key), every note
\* with the policy of the root
ApplyChords ==
    {Chord__init__(<<>>,
         << <<root,
              with_policy(Note__add__(root, shape[1]), root.isotonic_is_equal),
              with_policy(Note__add__(root, shape[2]), root.isotonic_is_equal)>> >>,
         key).obj[1] :
        root \in ApplyRoots, shape \in ApplyShapes, key \in {<<>>, <<D>>}}

InitApply ==
    /\ p_progression \in {PROGRESSIONS[k] : k \in DOMAIN PROGRESSIONS}
                          \cup {CADENCES[k] : k \in DOMAIN CADENCES}
    /\ p_chord \in ApplyChords
    /\ p_applied = <<>>
    /\ harm_idle
    /\ conv_idle
    /\ arith_idle
    /\ chord_idle
    /\ frozen_idle
    /\ cmp_idle
    /\ new_idle
    /\ scale_idle

\* apply_progression(p_progression, p_chord)
Apply ==
    /\ p_applied = <<>>
    /\ p_applied' = <<apply_progression(p_progression, p_chord)>>
    /\ UNCHANGED <<p_progression, p_chord, outside_apply>>

NextApply == Apply

SpecApply == InitApply /\ [][NextApply]_vars

---------------------------------------------------------------------------
(* Note._scale_num_to_steps called on a scale degree and on its neighbours *)

InitScale ==
    /\ s_num \in (-MaxScaleNum)..MaxScaleNum
    /\ s_steps = <<>>
    /\ harm_idle
    /\ conv_idle
    /\ arith_idle
    /\ chord_idle
    /\ frozen_idle
    /\ cmp_idle
    /\ new_idle
    /\ apply_idle

\* Note._scale_num_to_steps(k) for k = s_num, s_num + 1 and s_num + 7, with
\* the defaults accidental=0 and octave=0
ScaleNumSteps ==
    /\ s_steps = <<>>
    /\ s_steps' = << <<_scale_num_to_steps(s_num, 0, 0),
                       _scale_num_to_steps(s_num + 1, 0, 0),
                       _scale_num_to_steps(s_num + 7, 0, 0)>> >>
    /\ UNCHANGED <<s_num, outside_scale>>

NextScale == ScaleNumSteps

SpecScale == InitScale /\ [][NextScale]_vars

---------------------------------------------------------------------------
(* Vocabulary of the properties, stated on pitches rather than through the *)
(* methods of the classes                                                  *)

Range(seq) == {seq[k] : k \in 1..Len(seq)}

\* the pitch class of a note: its semitone within the octave
PitchClass(note) == Note_steps(note) % 12

\* the pitches of a chord, in semitones, in the order of its notes
StepsOf(chord) ==
    LET real == Chord_real_notes(chord)
    IN  [k \in 1..Len(real) |-> Note_steps(real[k])]

ContainsPitchClass(chord, note) ==
    PitchClass(note) \in {s % 12 : s \in Range(StepsOf(chord))}

\* the two chords have the same pitch classes position by position
SamePitchClasses(a, b) ==
    LET sa == StepsOf(a)
        sb == StepsOf(b)
    IN  \A k \in (DOMAIN sa) \cap (DOMAIN sb) : (sa[k] - sb[k]) % 12 = 0

\* (a, b) is the table entry moved by one and the same number of semitones
CommonTransposition(a, b, entry) ==
    LET k == StepsOf(a)[1] - StepsOf(entry[1])[1]
    IN  /\ StepsOf(a) = [j \in DOMAIN StepsOf(entry[1]) |-> StepsOf(entry[1])[j] + k]
        /\ StepsOf(b) = [j \in DOMAIN StepsOf(entry[2]) |-> StepsOf(entry[2])[j] + k]

\* a keyless major triad in root position: root, major third, perfect fifth
MajorTriadOn(chord, root) ==
    /\ chord.key = <<>>
    /\ Len(chord.notes) = 3
    /\ chord.notes[1].name = root.name
    /\ chord.notes[1].accidental = root.accidental
    /\ chord.notes[1].octave = root.octave
    /\ Note_scale_num(chord.notes[2]) - Note_scale_num(root) = 2
    /\ Note_steps(chord.notes[2]) - Note_steps(root) = 4
    /\ Note_scale_num(chord.notes[3]) - Note_scale_num(root) = 4
    /\ Note_steps(chord.notes[3]) - Note_steps(root) = 7

\* the chord every harmonization ends with
IsFinalChord(chord) ==
    IF final_chord # <<>> THEN chord = final_chord[1]
    ELSE MajorTriadOn(chord, melody[Len(melody)])

Returned == pc = "done"

---------------------------------------------------------------------------
(* C1: containment of the melody in the returned harmonizations *)

\* C1 as stated: for every final chord, supplied or defaulted, each returned
\* sequence holds at every index k a chord with a note of the pitch class of
\* melody[k].
C1_ContainsMelody ==
    Returned =>
        \A h \in Range(harmonizations) : \A k \in 1..Len(h) :
            ContainsPitchClass(h[k], melody[k])

\* C1 as amended: each returned sequence holds such a chord at every index
\* before the last, and at the last index too when the final chord is the
\* default; a supplied final chord is returned at the last index as given.
C1_ContainsMelodyBeforeFinal ==
    Returned =>
        \A h \in Range(harmonizations) : \A k \in 1..Len(h) :
            (k < Len(melody) \/ final_chord = <<>>) =>
                ContainsPitchClass(h[k], melody[k])

C1_Witness ==
    /\ Returned
    /\ Len(melody) = MaxMelodyLen
    /\ harmonizations # <<>>
    /\ final_chord # <<>>
    /\ ~ ContainsPitchClass(final_chord[1], melody[Len(melody)])

---------------------------------------------------------------------------
(* C2: termination after len(melody)-1 rounds *)

C2_Lengths ==
    /\ pc = "loop" =>
           \A h \in Range(harmonizations) : Len(h) = i + 1
    /\ Returned =>
           /\ i = Len(melody) - 1
           /\ \A h \in Range(harmonizations) : Len(h) = Len(melody)

\* the statements of harmonize still to run: the first two, the rounds left
\* and the return
C2_StepsLeft ==
    IF pc = "start" THEN Len(melody) + 1
    ELSE IF pc = "loop" THEN Len(melody) - i
    ELSE 0

\* harmonize is not stuck before it returns: its next statement can run (the
\* statements' own conditions; each assigns values that always exist)
C2_CanStep ==
    \/ pc = "start"
    \/ pc = "loop" /\ more_rounds
    \/ pc = "loop" /\ ~ more_rounds
    \/ Returned

C2_Prepend ==
    /\ C2_StepsLeft' < C2_StepsLeft
    /\ i' = i + 1 =>
           \A h \in Range(harmonizations') :
               /\ Len(h) >= 2
               /\ Tail(h) \in Range(harmonizations)

\* C2: harmonize returns after exactly len(melody)-1 rounds: every statement
\* lowers the count of statements left, which is never negative, and some
\* statement can run until harmonize has returned; after round r every
\* partial sequence has r+1 chords, each round prepends exactly one chord to
\* a sequence of the round before, and every returned sequence has
\* len(melody) chords.
C2_Terminates ==
    /\ [](C2_Lengths /\ C2_StepsLeft >= 0 /\ C2_CanStep)
    /\ [][C2_Prepend]_vars

C2_Witness ==
    /\ Returned
    /\ Len(melody) = MaxMelodyLen
    /\ i = MaxMelodyLen - 1
    /\ harmonizations # <<>>

---------------------------------------------------------------------------
(* C3: adjacent chords come from one table entry *)

\* C3: in every sequence each adjacent pair is a common transposition of one
\* entry of the cadence table (the pair next to the final chord) or of the
\* interior table (any other pair).
C3_PairsFromTables ==
    \A h \in Range(harmonizations) : \A j \in 1..(Len(h) - 1) :
        \E entry \in Range(IF j = Len(h) - 1 THEN CADENCES ELSE PROGRESSIONS) :
            CommonTransposition(h[j], h[j + 1], entry)

---------------------------------------------------------------------------
(* C4: the final chord *)

\* C4: every partial and every returned sequence ends with the final chord:
\* the supplied chord, or else the major triad on the melody's last note.
C4_EndsWithFinalChord ==
    pc \in {"loop", "done"} =>
        \A h \in Range(harmonizations) : IsFinalChord(h[Len(h)])

C4_Witness ==
    /\ Returned
    /\ final_chord = <<>>
    /\ Len(melody) = MaxMelodyLen
    /\ melody[1] # melody[Len(melody)]
    /\ Len(harmonizations) >= 2

---------------------------------------------------------------------------
(* C5: dead branches *)

\* some entry of the table passes the shape match and the containment test
SomeEntryPasses(h) ==
    \E entry \in Range(progressions_of(h)) :
        /\ apply_progression(entry, h[1]) # <<>>
        /\ ContainsPitchClass(apply_progression(entry, h[1])[1],
                              melody[Len(melody) - Len(h)])

C5_Round ==
    i' = i + 1 =>
        /\ \A child \in Range(harmonizations') :
               /\ Len(child) >= 2
               /\ Tail(child) \in Range(harmonizations)
               /\ SomeEntryPasses(Tail(child))
        /\ (\A h \in Range(harmonizations) : ~ SomeEntryPasses(h))
               => harmonizations' = <<>>
        /\ harmonizations = <<>> => harmonizations' = <<>>

\* C5: a partial sequence for which no table entry passes both tests has no
\* children in the next round; when that is so for all of them the next
\* round leaves no partial sequence, every later round leaves none either,
\* and harmonize goes on to return the empty list.
C5_DeadBranches ==
    /\ [][C5_Round]_vars
    /\ [](harmonizations = <<>> /\ pc = "loop" => C2_CanStep /\ C2_StepsLeft > 0)
    /\ [][harmonizations = <<>> /\ pc = "loop" =>
              harmonizations' = <<>> /\ pc' \in {"loop", "done"}]_vars

C5_Witness ==
    /\ Returned
    /\ harmonizations = <<>>
    /\ final_chord = <<Bdim>>
    /\ Len(melody) = MaxMelodyLen

---------------------------------------------------------------------------
(* C6: no two matching chords before one partial sequence *)

\* the shape of a chord: its intervals from the root in semitones mod 12,
\* with the pitch class of its root
ShapeAndRoot(chord) ==
    LET st == StepsOf(chord)
    IN  <<st[1] % 12, [k \in DOMAIN st |-> (st[k] - st[1]) % 12]>>

\* C6: two sequences that extend the same partial sequence by one chord
\* begin with chords that do not match octave-agnostically, and so differ
\* in chord shape or in root pitch class.
C6_ChildrenDistinct ==
    \A a, b \in DOMAIN harmonizations :
        (a # b /\ Tail(harmonizations[a]) = Tail(harmonizations[b])) =>
            /\ ~ SamePitchClasses(harmonizations[a][1], harmonizations[b][1])
            /\ ShapeAndRoot(harmonizations[a][1]) # ShapeAndRoot(harmonizations[b][1])

\* a returned sequence whose first chord two different table entries both
\* proposed: the second proposal was rejected as matching the first
C6_Witness ==
    /\ Returned
    /\ Len(melody) = MaxMelodyLen
    /\ \E h \in Range(harmonizations) :
           \E j, k \in DOMAIN PROGRESSIONS :
               /\ j < k
               /\ PROGRESSIONS[j] # PROGRESSIONS[k]
               /\ apply_progression(PROGRESSIONS[j], h[2]) # <<>>
               /\ apply_progression(PROGRESSIONS[k], h[2]) # <<>>
               /\ apply_progression(PROGRESSIONS[j], h[2])[1] = h[1]
               /\ SamePitchClasses(apply_progression(PROGRESSIONS[k], h[2])[1], h[1])

---------------------------------------------------------------------------
(* C8: a melody of one note *)

\* the chords the cadence table proposes before the final chord for the
\* melody's only note
CadenceCandidates ==
    {apply_progression(entry, final_chord_of(melody, final_chord))[1] :
        entry \in {e \in Range(CADENCES) :
            /\ apply_progression(e, final_chord_of(melody, final_chord)) # <<>>
            /\ ContainsPitchClass(
                   apply_progression(e, final_chord_of(melody, final_chord))[1],
                   melody[1])}}

\* C8 as stated: for a melody of length 1 harmonize returns the candidates
\* the cadence table yields, as sequences of length 1.
C8_CadenceCandidates ==
    (Returned /\ Len(melody) = 1) =>
        Range(harmonizations) = {<<c>> : c \in CadenceCandidates}

\* C8 as amended: for a melody of length 1 harmonize runs no round and uses
\* no table; it returns exactly one sequence, holding the final chord alone.
C8_OnlyFinalChord ==
    (Returned /\ Len(melody) = 1) =>
        /\ i = 0
        /\ Len(harmonizations) = 1
        /\ Len(harmonizations[1]) = 1
        /\ IsFinalChord(harmonizations[1][1])

C8_Witness ==
    /\ Returned
    /\ Len(melody) = 1
    /\ final_chord = <<>>
    /\ CadenceCandidates # {}

---------------------------------------------------------------------------
(* C9: steps -> (scale_num, accidental, octave) -> steps *)

\* C9: _scale_num_to_steps applied to the tuple _steps_to_scale_num(s, flat)
\* returned gives s back, for negative s and for both values of flat.
C9_RoundTrip ==
    out_steps # <<>> => out_steps[1] = in_steps

C9_Witness ==
    /\ out_steps # <<>>
    /\ in_steps < -_STEPS_PER_OCTAVE
    /\ in_flat
    /\ out_tuple[1][2] = -1

---------------------------------------------------------------------------
(* C10: the difference of two Notes, or of two Intervals *)

\* C10: for lhs and rhs both plain Notes or both Intervals, lhs - rhs is an
\* Interval that is not negative (its scale_num is the absolute difference
\* of the scale_nums, its steps the absolute difference of the steps), and
\* it equals rhs - lhs.
C10_SubSymmetric ==
    (lhs.cls = rhs.cls /\ diff # <<>>) =>
        /\ diff[1].cls = "Interval"
        /\ Note_scale_num(diff[1]) >= 0
        /\ Interval_distance(diff[1]) =
               abs(Note_scale_num(lhs) - Note_scale_num(rhs))
        /\ Note_steps(diff[1]) = abs(Note_steps(lhs) - Note_steps(rhs))
        /\ rdiff # <<>> =>
               /\ Note__eq__(diff[1], rdiff[1])
               /\ Note__eq__(rdiff[1], diff[1])

\* E - B and B - E
C10_Witness ==
    /\ lhs = E
    /\ rhs = B
    /\ diff = <<P5>>
    /\ rdiff = <<P5>>

---------------------------------------------------------------------------
(* C11: the sum of two Notes or Intervals *)

\* C11: lhs + rhs has scale_num lhs.scale_num + rhs.scale_num and steps
\* lhs.steps + rhs.steps; it is an Interval exactly when lhs is an Interval
\* and a plain Note otherwise; rhs + lhs has the same scale_num and steps.
C11_AddComponentwise ==
    sum # <<>> =>
        /\ Note_scale_num(sum[1]) = Note_scale_num(lhs) + Note_scale_num(rhs)
        /\ Note_steps(sum[1]) = Note_steps(lhs) + Note_steps(rhs)
        /\ sum[1].cls = (IF lhs.cls = "Interval" THEN "Interval" ELSE "Note")
        /\ rsum # <<>> =>
               /\ Note_scale_num(rsum[1]) = Note_scale_num(sum[1])
               /\ Note_steps(rsum[1]) = Note_steps(sum[1])

\* M3 + B and B + M3: the same pitch, an Interval and a plain Note
C11_Witness ==
    /\ lhs = M3
    /\ rhs = B
    /\ sum # <<>>
    /\ rsum # <<>>
    /\ sum[1].cls = "Interval"
    /\ rsum[1].cls = "Note"
    /\ Note_steps(sum[1]) = 15

---------------------------------------------------------------------------
(* C12: a plain Note minus an Interval *)

\* C12: for lhs a plain Note and rhs an Interval, lhs - rhs is a plain Note
\* with scale_num lhs.scale_num - rhs.scale_num and steps lhs.steps -
\* rhs.steps, which are negative when rhs reaches below middle C.
C12_NoteMinusInterval ==
    (lhs.cls = "Note" /\ rhs.cls = "Interval" /\ diff # <<>>) =>
        /\ diff[1].cls = "Note"
        /\ Note_scale_num(diff[1]) = Note_scale_num(lhs) - Note_scale_num(rhs)
        /\ Note_steps(diff[1]) = Note_steps(lhs) - Note_steps(rhs)

\* C - P4 is G in octave -1
C12_Witness ==
    /\ lhs = C
    /\ rhs = Interval_from_distance(3, 0)
    /\ diff = <<Note_from_name("G", 0, -1, TRUE)>>
    /\ Note_steps(diff[1]) = -5

---------------------------------------------------------------------------
(* C13: the quality a chord reads back *)

\* the semitones from a chord's first note to each of its other notes
SemitonesFromRoot(ch) ==
    [k \in 1..(Len(ch.notes) - 1) |->
        abs(Note_steps(ch.notes[k + 1]) - Note_steps(ch.notes[1]))]

\* the ten named qualities with their shapes in semitones
NamedShapes ==
    { <<"major", <<4, 7>> >>, <<"minor", <<3, 7>> >>,
      <<"augmented", <<4, 8>> >>, <<"diminished", <<3, 6>> >>,
      <<"dominant-seventh", <<4, 7, 10>> >>,
      <<"minor-seventh", <<3, 7, 10>> >>,
      <<"major-seventh", <<4, 7, 11>> >>,
      <<"augmented-seventh", <<4, 8, 10>> >>,
      <<"diminished-seventh", <<3, 6, 9>> >>,
      <<"half-diminished-seventh", <<3, 6, 10>> >> }

\* the quality a short name such as 'Dmin7' asks for
QualityAskedFor(short) ==
    CASE short.tail = "maj" -> (IF short.seventh THEN "major-seventh" ELSE "major")
      [] short.tail = "min" -> (IF short.seventh THEN "minor-seventh" ELSE "minor")
      [] short.tail = "aug" -> (IF short.seventh THEN "augmented-seventh"
                                ELSE "augmented")
      [] short.tail = "dim" -> (IF short.seventh THEN "diminished-seventh"
                                ELSE "diminished")
      [] short.tail = "dom" -> "dominant-seventh"
      [] short.tail = "hal" -> "half-diminished-seventh"

\* C13: a chord built from a root and the intervals of a named quality
\* reads back that quality, whatever the root and the key; any chord whose
\* semitones from the root are those of a named quality reads back that
\* name, and a chord whose semitones are those of no named quality (too
\* few or too many notes, or other intervals) reads back "Unknown".
C13_QualityReadBack ==
    (Constructed /\ c_quality # <<>>) =>
        /\ (c_added = 0 /\ c_short # <<>> /\ c_short[1].head # <<>>) =>
               c_quality[1] = QualityAskedFor(c_short[1])
        /\ \A named \in NamedShapes :
               SemitonesFromRoot(c_chord[1].obj[1]) = named[2] =>
                   c_quality[1] = named[1]
        /\ (\A named \in NamedShapes :
                SemitonesFromRoot(c_chord[1].obj[1]) # named[2]) =>
               c_quality[1] = "Unknown"

\* Chord(short='Bbhal7', key=D).quality
C13_Witness ==
    /\ Constructed
    /\ c_added = 0
    /\ c_short # <<>>
    /\ c_short[1].text = "Bbhal"
    /\ c_short[1].seventh
    /\ c_key = <<D>>
    /\ c_quality = <<"half-diminished-seventh">>

---------------------------------------------------------------------------
(* C14: constructed objects are frozen *)

\* an attempt to set or delete an attribute
C14_Attempt == f_call'[1].op \in {"setattr", "delattr"}

\* the cached properties that have been read so far
CachedSoFar == {name \in CachedAttributes(f_cls) : f_dict[name] # <<>>}

\* C14: once the constructor has returned the object, setting or deleting
\* any attribute, the frozen flag and unknown attributes included, raises
\* TypeError and leaves every attribute as it was; so it is after any reads
\* of the cached properties, each of which adds its value and nothing else
\* and leaves the object frozen.
C14_Frozen ==
    /\ [](f_live => f_dict[IS_FROZEN] = <<"True">>)
    /\ [][C14_Attempt => (f_call'[1].raised = "TypeError" /\ f_dict' = f_dict)]_vars
    /\ [][f_live /\ ~ C14_Attempt =>
              \A key \in FrozenKeys \ CachedAttributes(f_cls) :
                  f_dict'[key] = f_dict[key]]_vars

\* a Chord whose cached properties have all been read, and on which an
\* attempt to clear the frozen flag has just failed
C14_Witness ==
    /\ f_live
    /\ f_cls = "Chord"
    /\ CachedSoFar = CachedAttributes("Chord")
    /\ f_call = <<[op |-> "setattr", key |-> IS_FROZEN, raised |-> "TypeError"]>>

---------------------------------------------------------------------------
(* C15: equal Notes have equal hashes *)

\* C15: whenever k_a == k_b, hash(k_a) = hash(k_b), whatever policy each of
\* the two Notes carries.
C15_EqualNotesHashEqual ==
    (k_cmp # <<>> /\ k_hash # <<>> /\ k_cmp[1].ab.eq) =>
        k_hash[1][1] = k_hash[1][2]

---------------------------------------------------------------------------
(* C16: the order of Notes *)

\* C16: of k_a < k_b, k_a == k_b and k_a > k_b exactly one holds, and the
\* order is transitive over k_a, k_b, k_c, whatever policy each carries.
C16_TotalOrder ==
    k_cmp # <<>> =>
        /\ \/ k_cmp[1].ab.lt /\ ~ k_cmp[1].ab.eq /\ ~ k_cmp[1].ab.gt
           \/ ~ k_cmp[1].ab.lt /\ k_cmp[1].ab.eq /\ ~ k_cmp[1].ab.gt
           \/ ~ k_cmp[1].ab.lt /\ ~ k_cmp[1].ab.eq /\ k_cmp[1].ab.gt
        /\ (k_cmp[1].ab.lt /\ k_cmp[1].bc.lt) => k_cmp[1].ac.lt
        /\ (k_cmp[1].ab.eq /\ k_cmp[1].bc.eq) => k_cmp[1].ac.eq

---------------------------------------------------------------------------
(* C17: the notes of a chord *)

\* x is not above y in the order of Notes: by pitch when both carry the
\* enharmonic policy, else by letter and octave and then by accidental
NotAbove(x, y) ==
    IF x.isotonic_is_equal /\ y.isotonic_is_equal
    THEN Note_steps(x) <= Note_steps(y)
    ELSE \/ Note_scale_num(x) < Note_scale_num(y)
         \/ /\ Note_scale_num(x) = Note_scale_num(y)
            /\ x.accidental <= y.accidental

\* the notes all carry one comparison policy
SamePolicy(notes) ==
    \A j, k \in 1..Len(notes) :
        notes[j].isotonic_is_equal = notes[k].isotonic_is_equal

---------------------------------------------------------------------------
(* C18: a scale-degree chord in a key *)

\* the semitones of the degrees of a major scale above its tonic
MajorScaleSemitones == <<0, 2, 4, 5, 7, 9, 11>>

\* the semitones of a triad above its root: major for an upper-case degree,
\* diminished for vii, minor for the other lower-case degrees
TriadSemitones(text) ==
    IF text = upper(text) THEN <<0, 4, 7>>
    ELSE IF text = "vii" THEN <<0, 3, 6>>
    ELSE <<0, 3, 7>>

\* the pitches of the triad on the degree named by text in the major scale
\* whose tonic is key
DegreeTriadInKey(text, key) ==
    [k \in 1..3 |-> Note_steps(key)
                    + MajorScaleSemitones[_KEY_CHORDS[upper(text)]]
                    + TriadSemitones(text)[k]]

\* the chord was constructed from a scale-degree name and has not been moved
DegreeChord ==
    /\ Constructed
    /\ c_added = 0
    /\ c_short # <<>>
    /\ c_short[1] \in DegreeShorts

\* C18: the root and the real_notes of a chord constructed from a
\* scale-degree name and a key are the triad on that degree of the major
\* scale of the key, the key counted once.
C18_DegreeTriadInKey ==
    (DegreeChord /\ c_key # <<>>) =>
        /\ StepsOf(c_chord[1].obj[1]) =
               DegreeTriadInKey(c_short[1].text, c_key[1])
        /\ Note_steps(Chord_root(c_chord[1].obj[1])) =
               DegreeTriadInKey(c_short[1].text, c_key[1])[1]

---------------------------------------------------------------------------
(* C19: constructors called with arguments that contradict each other *)

\* the letters of the scale from C
ScaleLetters == <<"C", "D", "E", "F", "G", "A", "B">>

\* the pitch, in semitones from C0, of a scale number and an accidental
PitchOf(scale_num, accidental) ==
    12 * (scale_num \div 7) + MajorScaleSemitones[(scale_num % 7) + 1]
    + accidental

\* the accidental a quality stands for at a distance, <<>> when the distance
\* does not take the quality: unisons, fourths and fifths are diminished,
\* perfect or augmented, the others diminished, minor, major or augmented
QualityAccidental(distance, quality) ==
    IF (distance % 7) \in {0, 3, 4}
    THEN CASE quality = "DIMINISHED" -> <<-1>>
           [] quality = "PERFECT"    -> <<0>>
           [] quality = "AUGMENTED"  -> <<1>>
           [] OTHER                  -> <<>>
    ELSE CASE quality = "DIMINISHED" -> <<-2>>
           [] quality = "MINOR"      -> <<-1>>
           [] quality = "MAJOR"      -> <<0>>
           [] quality = "AUGMENTED"  -> <<1>>
           [] OTHER                  -> <<>>

\* the distances the call names: its distance argument and the distance of
\* its interval_name argument
DistancesGiven(args) ==
    {args.distance[k] : k \in DOMAIN args.distance}
    \cup {IF args.interval_name[k][1] = "int"
          THEN args.interval_name[k][2] - 1
          ELSE CHOOSE d \in 0..14 :
                   <<"UNISON", "SECOND", "THIRD", "FOURTH", "FIFTH", "SIXTH",
                     "SEVENTH", "OCTAVE", "NINTH", "TENTH", "ELEVENTH",
                     "TWELFTH", "THIRTEENTH", "FOURTEENTH",
                     "FIFTEENTH">>[d + 1] = args.interval_name[k][2] :
          k \in DOMAIN args.interval_name}

\* Interval: a distance and a quality whose pitch is not the steps argument
StepsContradictQuality(args) ==
    /\ args.interval_type # <<>>
    /\ args.steps # <<>>
    /\ \E d \in DistancesGiven(args) :
           /\ QualityAccidental(d, args.interval_type[1]) # <<>>
           /\ args.steps[1] #
                  PitchOf(d, QualityAccidental(d, args.interval_type[1])[1])

\* Interval: a quality, at the distance given, that is not the accidental
\* argument
AccidentalContradictsQuality(args) ==
    /\ args.interval_type # <<>>
    /\ args.accidental # <<>>
    /\ \E d \in DistancesGiven(args) :
           /\ QualityAccidental(d, args.interval_type[1]) # <<>>
           /\ args.accidental # QualityAccidental(d, args.interval_type[1])

\* Note: a name that is not the letter of the scale_num argument
NameContradictsScaleNum(args) ==
    /\ args.name # <<>>
    /\ args.scale_num # <<>>
    /\ args.name[1] # ScaleLetters[(args.scale_num[1] % 7) + 1]

\* Note: a steps argument that is not the pitch of the name (or of the
\* scale_num, which counts its octaves on top), the accidental (the flat
\* or sharp flag when there is none) and the octave
StepsContradictName(args) ==
    /\ args.name # <<>> \/ args.scale_num # <<>>
    /\ args.steps # <<>>
    /\ \E n \in 0..6 :
           /\ args.name # <<>> => ScaleLetters[n + 1] = args.name[1]
           /\ args.scale_num # <<>> => n = args.scale_num[1] % 7
           /\ args.steps[1] #
                  PitchOf(n + 7 * ((IF args.octave = <<>> THEN 0
                                    ELSE args.octave[1])
                                   + (IF args.scale_num = <<>> THEN 0
                                      ELSE args.scale_num[1] \div 7)),
                          IF args.accidental # <<>> THEN args.accidental[1]
                          ELSE IF args.flat THEN -1
                          ELSE IF args.sharp THEN 1
                          ELSE 0)

\* the call is over and has raised an exception instead of returning an
\* object
Failed == new_result # <<>> /\ new_result[1].raised # ""
                            /\ new_result[1].obj = <<>>

---------------------------------------------------------------------------
(* C20: the two tables *)

\* the table get_harmonizations does not consult for a partial harmonization
other_table(h) == IF Len(h) = 1 THEN PROGRESSIONS ELSE CADENCES

\* C20 as stated: no (predecessor, successor) pair is an entry of both the
\* interior table and the cadence table: whichever table the search
\* consults for a partial harmonization, none of its entries is an entry of
\* the other table.
C20_TablesDisjoint ==
    \A h \in Range(harmonizations) :
        Range(progressions_of(h)) \cap Range(other_table(h)) = {}

\* the pair (h[j], h[j + 1]) is what an entry of the table yields for h[j + 1]
YieldedBy(table, h, j) ==
    \E entry \in Range(table) :
        LET applied == apply_progression(entry, h[j + 1])
        IN  applied # <<>> /\ applied[1] = h[j]

\* C20 as amended: the tables are two lists chosen between by position, the
\* cadence table for the chord before the final chord and the interior
\* table for every earlier chord; seven of the eight cadence entries are
\* interior entries too, and (V, IV) alone is a cadence only.  Sequences
\* grow at the front, so it is the first chord of each partial sequence that
\* is traced to its table.
C20_TablesByPosition ==
    /\ Range(CADENCES) \ Range(PROGRESSIONS) = {<<V, IV>>}
    /\ Range(CADENCES) \cap Range(PROGRESSIONS) =
           {<<V, I>>, <<IV, I>>, <<I, V>>, <<ii, V>>, <<IV, V>>, <<V, vi>>,
            <<V, ii>>}
    /\ \A h \in Range(harmonizations) :
           Len(h) >= 2 =>
               YieldedBy(IF Len(h) = 2 THEN CADENCES ELSE PROGRESSIONS, h, 1)

\* a returned harmonization of three chords whose first pair comes from an
\* interior entry that is a cadence entry as well
C20_Witness ==
    /\ Returned
    /\ Len(melody) = 3
    /\ \E h \in Range(harmonizations) :
           YieldedBy(<< <<V, I>>, <<IV, I>>, <<I, V>>, <<ii, V>>, <<IV, V>>,
                        <<V, vi>>, <<V, ii>> >>, h, 1)

---------------------------------------------------------------------------
(* C21: one expansion round *)

\* the root-relative shape of a chord, in semitones
ShapeOf(chord) ==
    LET st == StepsOf(chord)
    IN  [k \in DOMAIN st |-> st[k] - st[1]]

\* the table consulted for the partial sequence h
TableFor(h) == IF Len(h) = 1 THEN CADENCES ELSE PROGRESSIONS

\* the melody note the chord put before h has to contain
TargetNote(h) == melody[Len(melody) - Len(h)]

\* the candidates of the table for h, entry by entry: the transposed
\* predecessor where the successor has the shape of the first chord of h
\* and the predecessor contains the target note, nothing elsewhere
Candidates(h) ==
    [k \in DOMAIN TableFor(h) |->
        IF ShapeOf(TableFor(h)[k][2]) # ShapeOf(h[1]) THEN <<>>
        ELSE the({ IF ContainsPitchClass(applied[1], TargetNote(h))
                   THEN <<applied[1]>> ELSE <<>> :
                   applied \in {apply_progression(TableFor(h)[k], h[1])} })]

\* entry k of the table passes for h
Passes(cands, k) == cands[k] # <<>>

\* entry k is accepted for h: it passes and its candidate matches the
\* candidate of no earlier passing entry
Accepted(cands, k) ==
    /\ Passes(cands, k)
    /\ \A j \in 1..(k - 1) :
           Passes(cands, j) => ~ SamePitchClasses(cands[j][1], cands[k][1])

\* the children of h from entry k on, in the order of the table
RECURSIVE ChildrenFrom(_, _, _)
ChildrenFrom(h, cands, k) ==
    IF k > Len(cands) THEN <<>>
    ELSE (IF Accepted(cands, k) THEN << cands[k] \o h >> ELSE <<>>)
         \o ChildrenFrom(h, cands, k + 1)

\* the children of h, in the order of the table
ChildrenOf(h) == the({ ChildrenFrom(h, cands, 1) : cands \in {Candidates(h)} })

\* the children lists of the parents from parent p on, one after the other
RECURSIVE ChildrenOfAll(_, _)
ChildrenOfAll(parents, p) ==
    IF p > Len(parents) THEN <<>>
    ELSE ChildrenOf(parents[p]) \o ChildrenOfAll(parents, p + 1)

\* C21: a round replaces the list of partial sequences by the children of
\* each parent, parent after parent; the children of a parent are, in the
\* order of the table, the candidates of the entries whose successor has
\* the shape of the parent's first chord, whose transposed predecessor
\* contains the target melody note and which match no candidate accepted
\* before them; nothing else is dropped, added or reordered.
C21_RoundKeepsAllInOrder ==
    [][i' = i + 1 => harmonizations' = ChildrenOfAll(harmonizations, 1)]_vars

\* a returned list in which one parent has two children and a later child
\* has another parent
C21_Witness ==
    /\ Returned
    /\ Len(melody) = MaxMelodyLen
    /\ \E a, b, c \in DOMAIN harmonizations :
           /\ a < b /\ b < c
           /\ Tail(harmonizations[a]) = Tail(harmonizations[b])
           /\ Tail(harmonizations[b]) # Tail(harmonizations[c])

---------------------------------------------------------------------------
(* C22: the key apply_progression computes *)

\* apply_progression has been called and has accepted the entry
AppliedAndAccepted == p_applied # <<>> /\ p_applied[1] # <<>>

\* C22: when apply_progression accepts an entry for a chord, the key it
\* returns has the steps of the chord's root minus the steps of the
\* successor's root, and the successor moved by that key has the pitches of
\* the chord.
C22_KeyAlignsSuccessor ==
    AppliedAndAccepted =>
        /\ Note_steps(p_applied[1][2]) =
               StepsOf(p_chord)[1] - StepsOf(p_progression[2])[1]
        /\ StepsOf(Chord__add__(p_progression[2], p_applied[1][2])) =
               StepsOf(p_chord)

---------------------------------------------------------------------------
(* C23: transposition of a chord *)

\* the scale numbers of the real notes of a chord, in the order of its notes
ScaleNumsOf(chord) ==
    LET real == Chord_real_notes(chord)
    IN  [k \in 1..Len(real) |-> Note_scale_num(real[k])]

\* moved is chord with every real note shifted by other, note for note
ShiftedBy(chord, moved, other) ==
    /\ moved.key = <<>>
    /\ StepsOf(moved) =
           [k \in DOMAIN StepsOf(chord) |->
               StepsOf(chord)[k] + Note_steps(other)]
    /\ ScaleNumsOf(moved) =
           [k \in DOMAIN ScaleNumsOf(chord) |->
               ScaleNumsOf(chord)[k] + Note_scale_num(other)]

\* the two chords have the same intervals from the root and the same quality
SameIntervalsAndQuality(chord, moved) ==
    /\ Chord_intervals(moved) = Chord_intervals(chord)
    /\ Chord_quality(moved) = Chord_quality(chord)

C23_Step ==
    c_added' = c_added + 1 =>
        \E other \in ChordAddends :
            /\ ShiftedBy(c_chord[1].obj[1], c_chord'[1].obj[1], other)
            /\ SameIntervalsAndQuality(c_chord[1].obj[1], c_chord'[1].obj[1])

\* C23: chord + other, for a Note or an Interval, is a chord without key
\* whose real notes are the real notes of the chord each shifted by other,
\* and whose intervals from the root, and so its quality, are those of the
\* chord.
C23_TransposeKeepsShape == [][C23_Step]_vars

---------------------------------------------------------------------------
(* C24: the gaps of the scale *)

\* C24: from scale degree k to k + 1 there is 1 semitone when k mod 7 is 2
\* or 6 and there are 2 otherwise, for negative k as well; seven degrees up
\* are 12 semitones.
C24_ScaleGaps ==
    s_steps # <<>> =>
        /\ s_steps[1][2] - s_steps[1][1] =
               (IF s_num % 7 \in {2, 6} THEN 1 ELSE 2)
        /\ s_steps[1][3] = s_steps[1][1] + 12

\* the degree below C: B an octave down, one semitone under C
C24_Witness ==
    /\ s_num = -1
    /\ s_steps = << <<-1, 0, 11>> >>

---------------------------------------------------------------------------
(* C25: no harmonization twice *)

\* the pitch classes of a chord, in the order of its notes
PitchClassesOf(chord) ==
    LET st == StepsOf(chord)
    IN  [k \in DOMAIN st |-> st[k] % 12]

\* Chord.match on the pitch classes of two chords: they agree at every
\* position both chords have
MatchOn(pa, pb) == \A k \in (DOMAIN pa) \cap (DOMAIN pb) : pa[k] = pb[k]

\* C25: any two entries of the list of sequences, at every round and in the
\* list returned, differ at some index by chords that do not match.
C25_NoDuplicates ==
    LET pcs == [a \in DOMAIN harmonizations |->
                   [j \in DOMAIN harmonizations[a] |->
                       PitchClassesOf(harmonizations[a][j])]]
    IN  \A a, b \in DOMAIN harmonizations :
            a < b => \E j \in DOMAIN pcs[a] : ~ MatchOn(pcs[a][j], pcs[b][j])

\* two returned sequences with different parents that begin with matching
\* chords: nothing compared them with each other
C25_Witness ==
    /\ Returned
    /\ Len(melody) = MaxMelodyLen
    /\ \E a, b \in DOMAIN harmonizations :
           /\ a < b
           /\ Tail(harmonizations[a]) # Tail(harmonizations[b])
           /\ SamePitchClasses(harmonizations[a][1], harmonizations[b][1])

---------------------------------------------------------------------------
(* C26: a final chord that is neither major nor minor *)

\* the shapes of the major and of the minor triad, in semitones from the root
TriadShapes == {<<0, 4, 7>>, <<0, 3, 7>>}

\* C26: for a melody of two notes or more and a supplied final chord whose
\* shape is neither that of a major nor that of a minor triad, harmonize
\* returns the empty list.
C26_OtherFinalChordEmpty ==
    (/\ Returned
     /\ Len(melody) >= 2
     /\ final_chord # <<>>
     /\ ShapeOf(final_chord[1]) \notin TriadShapes)
        => harmonizations = <<>>

\* harmonize has returned for a melody of full length and the dominant
\* seventh chord on G
C26_Witness ==
    /\ Returned
    /\ Len(melody) = MaxMelodyLen
    /\ final_chord = <<Gdom7>>
    /\ harmonizations = <<>>

===========================================================================
